---- MODULE Spec2Model ----
(***************************************************************************)
(* project-nimbus: the quota-enforced message dispatch (sendMessage,       *)
(* translateMessage) and the chat creation / invitation acceptance flow    *)
(* (CreateNewChat, AcceptInvitation).                                      *)
(*                                                                         *)
(* Every `await` of the source is a suspension point: an action below is   *)
(* the external call awaited there together with the synchronous code that *)
(* runs until the next await is issued.                                    *)
(***************************************************************************)
EXTENDS Integers, Sequences, FiniteSets, TLC

(***************************************************************************)
(* Bounds of the model.                                                    *)
(***************************************************************************)
MsgLimit == 2
TrLimit == 2
AiLimit == 1
MaxLangs == 2
MaxChats == 2
MaxStatusChanges == 3
MaxDispatches == 3
MaxRecordings == 2
MaxFetches == 3

(***************************************************************************)
(* Values.                                                                 *)
(***************************************************************************)
Calls == {"c1", "c2"}
NoUser == ""
UserA == "A"
UserB == "B"
UserC == "C"
Langs == {"en", "fr"}
Resources == {"messages", "translations", "aiInteractions", "fileStorage"}

\* A text value is a tuple: <<s>> is the string s, <<s, l>> its translation
\* to language l; <<>> stands for an absent (undefined) string.
NoText == <<>>
Str(s) == <<s>>
Translated(message, targetLang) == Append(message, targetLang)

\* String.prototype.trim on the strings of the model.
Trim(s) == IF s = " " THEN "" ELSE s

MAX_FILE_SIZE == 10 * 1024 * 1024
StorageLimit == 50 * 1024 * 1024

NoFile == [some |-> FALSE, name |-> "", size |-> 0, type |-> ""]
NoBlob == [some |-> FALSE, size |-> 0]
MkFile(n, s, t) == [some |-> TRUE, name |-> n, size |-> s, type |-> t]
MkBlob(s) == [some |-> TRUE, size |-> s]

Files ==
  { MkFile("a.png", 1, "image/png"),
    MkFile("b.pdf", 1, "application/pdf"),
    MkFile("c.pdf", MAX_FILE_SIZE, "application/pdf"),
    MkFile("d.pdf", MAX_FILE_SIZE + 1, "application/pdf"),
    MkFile("e.png", 12 * 1024 * 1024, "image/png") }
Blobs == { MkBlob(2) }
Contents == {"", " ", "hi"}

RECURSIVE SeqsUpTo(_, _)
SeqsUpTo(S, n) ==
  IF n = 0 THEN {<<>>}
  ELSE LET shorter == SeqsUpTo(S, n - 1)
       IN  shorter \cup {Append(s, x) : s \in {t \in shorter : Len(t) = n - 1}, x \in S}
LangLists == SeqsUpTo(Langs, MaxLangs)

RECURSIVE SeqToSet(_)
SeqToSet(s) == IF s = <<>> THEN {} ELSE {Head(s)} \cup SeqToSet(Tail(s))

\* ChatData as handed to sendMessage by its caller.
MkChat(t, p) == [type |-> t, participants |-> p]
PrivateChats == { MkChat("private", p) : p \in {<<UserA>>, <<UserA, UserB>>, <<UserB, UserA>>} }
GroupChats == { MkChat("group", <<UserA, UserB>>) }
AiChats == { MkChat("ai", <<UserA>>) }

MkArgs(content, file, audioBlob, userId, chatData, langs) ==
  [content |-> content, file |-> file, audioBlob |-> audioBlob, userId |-> userId,
   chatData |-> chatData, participantLanguages |-> langs]

\* The arguments of one sendMessage call.  participantLanguages is read by the
\* group branch only, so the other chat types get the empty list.
Payloads ==
  { <<c, f, b>> : c \in Contents, f \in Files \cup {NoFile}, b \in Blobs \cup {NoBlob} }
ArgsOfUserA ==
  { MkArgs(p[1], p[2], p[3], UserA, ch, <<>>) : p \in Payloads, ch \in PrivateChats \cup AiChats }
  \cup
  { MkArgs(p[1], p[2], p[3], UserA, ch, ls) : p \in Payloads, ch \in GroupChats, ls \in LangLists }
ArgsNoUser ==
  { MkArgs(c, f, NoBlob, NoUser, ch, <<>>) :
      c \in {"hi"}, f \in {NoFile, MkFile("a.png", 1, "image/png")}, ch \in AiChats }
AllArgs == ArgsOfUserA \cup ArgsNoUser
NoArgs == MkArgs("", NoFile, NoBlob, NoUser, MkChat("ai", <<>>), <<>>)

\* A user profile document as getDoc returns it.
MkDoc(exists, lang) == [exists |-> exists, preferredLang |-> lang]
NoDoc == MkDoc(FALSE, "")
ProfileDocs == { NoDoc, MkDoc(TRUE, ""), MkDoc(TRUE, "fr") }

\* Message.content: a single string or a language-keyed mapping.
NoTranslations == [l \in Langs |-> NoText]
NoContent == [shape |-> "none", str |-> NoText, map |-> NoTranslations]
StringContent(t) == [shape |-> "string", str |-> t, map |-> NoTranslations]
MapContent(m) == [shape |-> "map", str |-> NoText, map |-> m]
Keys(m) == {l \in Langs : m[l] # NoText}

NoMessage ==
  [senderId |-> NoUser, type |-> "none", content |-> NoContent,
   originalContent |-> NoText, fileUrl |-> FALSE]

ERR_MESSAGES == "You've reached your message limit for the free tier."
ERR_STORAGE == "You've reached your file storage limit for the free tier."
ERR_SIZE == "File size exceeds the maximum limit of 10MB."
ERR_AI == "You've reached your AI interaction limit for the free tier."
ERR_UPLOAD == "uploadBytes/getDownloadURL rejected"
ERR_STORE == "getDoc/addDoc rejected"

Pending == [status |-> "pending", error |-> ""]
Returned == [status |-> "returned", error |-> ""]
Ok == [status |-> "ok", error |-> ""]
Thrown(msg) == [status |-> "error", error |-> msg]

VARIABLES
  usage,         \* the user's usage counters (quota ledger document)
  usage0,        \* the counters at the start of the behaviour
  blobStore,     \* blobs uploaded to storage: sequence of [call, bytes]
  chatMessages,  \* chats/{chatId}/messages: sequence of [call, data]
  pc,            \* per call: position in sendMessage
  args,          \* per call: the arguments
  messageData,   \* per call: the local messageData
  userData,      \* per call: the other participant's profile read by getDoc
  units,         \* per call: position of each per-language unit of the fan-out
  translations,  \* per call: the local translations object of the fan-out
  result,        \* per call: how the call ended
  trace,         \* per call: the effects of the call, in order
  chats,         \* the chats collection: chat id k is the k-th document
  invitations,   \* the invitations collection
  ui,            \* CreateNewChat: the component's props and state
  handler,       \* CreateNewChat: the running handleCreateChat / handleInvite
  visitor,       \* AcceptInvitation: one component per visiting user
  input,         \* MessageInput: the component's state and its running handlers
  dispatched,    \* MessageInput: the calls of onSendMessage, in order
  store,         \* useUserStore: currentUser and isLoading
  requests       \* useUserStore: the fetchUserInfo calls, in order

sendVars ==
  <<usage, usage0, blobStore, chatMessages, pc, args, messageData, userData,
    units, translations, result, trace>>

inviteVars == <<chats, invitations, ui, handler, visitor>>

clientVars == <<input, dispatched, store, requests>>

vars == <<sendVars, inviteVars, clientVars>>

(***************************************************************************)
(* Quota ledger (lib/usageTracking): check-and-increment, capacity check   *)
(* and storage charge.                                                     *)
(***************************************************************************)
Limit(r) ==
  CASE r = "messages" -> MsgLimit
    [] r = "translations" -> TrLimit
    [] r = "aiInteractions" -> AiLimit
    [] r = "fileStorage" -> StorageLimit

\* checkAndIncrementUsage(userId, r): the returned flag and the counters after.
checkAndIncrementUsage(u, r) ==
  IF u[r] < Limit(r)
    THEN [allowed |-> TRUE, usage |-> [u EXCEPT ![r] = @ + 1]]
    ELSE [allowed |-> FALSE, usage |-> u]

checkFileStorageLimit(u, bytes) == u["fileStorage"] + bytes <= Limit("fileStorage")

incrementFileStorage(u, bytes) == [u EXCEPT !["fileStorage"] = @ + bytes]

(***************************************************************************)
(* sendMessage: the synchronous pieces.                                    *)
(***************************************************************************)
\* line 21: TRUE when the call returns at once
InputGuard(content, file, audioBlob, userId) ==
  (Trim(content) = "" /\ ~file.some /\ ~audioBlob.some) \/ userId = NoUser

MessagesDenied_Ignored(canSendMessage) == FALSE

\* line 26
MessagesDenied(canSendMessage) == ~canSendMessage

PayloadBranch_FileFirst(file, audioBlob) ==
  IF file.some THEN "file" ELSE IF audioBlob.some THEN "audio" ELSE "text"

\* lines 36, 65, 89: the one branch that runs
PayloadBranch(file, audioBlob) ==
  IF audioBlob.some THEN "audio" ELSE IF file.some THEN "file" ELSE "text"

OverMaxFileSize_WrongUnit(size) == size > 10 * 1024 * 1024 * 10

\* line 72
OverMaxFileSize(size) == size > MAX_FILE_SIZE

FileRejection_CapFirst(canUploadFile, size) ==
  IF size > MAX_FILE_SIZE THEN ERR_SIZE
  ELSE IF ~canUploadFile THEN ERR_STORAGE
  ELSE ""

\* lines 68-74: the error the file branch throws before any upload ("" if none)
FileRejection(canUploadFile, size) ==
  IF ~canUploadFile THEN ERR_STORAGE
  ELSE IF OverMaxFileSize(size) THEN ERR_SIZE
  ELSE ""

\* line 82: file.type.startsWith("image/")
StartsWithImage(mime) == mime \in {"image/png"}
FileType(mime) == IF StartsWithImage(mime) THEN "image" ELSE "file"

OriginalContent_Absent(ok) ==
  IF ok THEN Str("transcript") ELSE NoText

\* lines 60-63: originalContent after the transcription call (ok) or its catch
OriginalContent(ok) ==
  IF ok THEN Str("transcript") ELSE Str("Transcription failed")

Translatable_Any(md) == TRUE

Translatable_TextOnly(md) == md.type = "text"

\* line 99: translation and the AI charge are for text and audio only
Translatable(md) == md.type \in {"text", "audio"}

AiDenied_Ignored(canUseAI) == FALSE

\* line 144
AiDenied(canUseAI) == ~canUseAI

\* line 100
TextToTranslate(md, content) ==
  IF md.type = "audio" THEN md.originalContent ELSE Str(content)

\* lines 103-105: participants.find((p) => p !== userId)
RECURSIVE OtherParticipant(_, _)
OtherParticipant_First(participants, userId) ==
  IF participants = <<>> THEN NoUser ELSE Head(participants)

OtherParticipant(participants, userId) ==
  IF participants = <<>> THEN NoUser
  ELSE IF Head(participants) # userId THEN Head(participants)
  ELSE OtherParticipant(Tail(participants), userId)

\* line 115: userData.preferredLang || "en"
TargetLang(ud) == IF ud.preferredLang = "" THEN "en" ELSE ud.preferredLang

translateMessage_Echo(message, targetLang, ok) == message

translateMessage_Blank(message, targetLang, ok) ==
  IF ok THEN Translated(message, targetLang) ELSE NoText

\* lines 158-189: ok is whether fetch resolved with an OK response
translateMessage(message, targetLang, ok) ==
  IF ok THEN Translated(message, targetLang) ELSE message

DeniedEntry_Translated(textToTranslate, lang) == Translated(textToTranslate, lang)

\* line 133: the entry written when the translations check is denied
DeniedEntry(textToTranslate, lang) == textToTranslate

DeniedContent_Translated(textToTranslate) ==
  StringContent(Translated(textToTranslate, "en"))

\* line 119: the content written when the translations check is denied
DeniedContent(textToTranslate) == StringContent(textToTranslate)

\* lines 98-148, from the end of the payload branch to the next await:
\* where the call goes on and the messageData it carries.
AfterPayload(md, a) ==
  IF Translatable(md)
    THEN CASE a.chatData.type = "private" ->
                IF OtherParticipant(a.chatData.participants, a.userId) # NoUser
                  THEN [pc |-> "getProfile", md |-> md]
                  ELSE [pc |-> "persist", md |-> md]
           [] a.chatData.type = "group" ->
                IF a.participantLanguages = <<>>
                  THEN [pc |-> "persist",
                        md |-> [md EXCEPT !.content = MapContent(NoTranslations)]]
                  ELSE [pc |-> "fanout", md |-> md]
           [] a.chatData.type = "ai" ->
                [pc |-> "checkAI",
                 md |-> [md EXCEPT !.content =
                                     StringContent(TextToTranslate(md, a.content))]]
    ELSE [pc |-> "persist", md |-> md]

Ev(c, e) == [trace EXCEPT ![c] = Append(@, e)]

\* the call goes on at st.pc with messageData st.md
Continue(c, st) ==
  /\ pc' = [pc EXCEPT ![c] = st.pc]
  /\ messageData' = [messageData EXCEPT ![c] = st.md]
  /\ units' = [units EXCEPT ![c] =
                 IF st.pc = "fanout"
                   THEN [i \in 1..Len(args[c].participantLanguages) |-> "check"]
                   ELSE <<>>]
  /\ UNCHANGED <<translations, result>>

\* lines 152-155: the error is logged and rethrown to the caller
Throw(c, msg) ==
  /\ pc' = [pc EXCEPT ![c] = "done"]
  /\ result' = [result EXCEPT ![c] = Thrown(msg)]
  /\ UNCHANGED <<messageData, units, translations>>

(***************************************************************************)
(* sendMessage: one action per await.                                      *)
(***************************************************************************)
\* lines 12-21: the call and its input guard
Invoke(c, A) ==
  /\ pc[c] = "idle"
  /\ \E a \in A :
       /\ args' = [args EXCEPT ![c] = a]
       /\ IF InputGuard(a.content, a.file, a.audioBlob, a.userId)
            THEN /\ pc' = [pc EXCEPT ![c] = "done"]
                 /\ result' = [result EXCEPT ![c] = Returned]
            ELSE /\ pc' = [pc EXCEPT ![c] = "checkMessages"]
                 /\ UNCHANGED result
  /\ UNCHANGED <<usage, usage0, blobStore, chatMessages, messageData, userData,
                 units, translations, trace, inviteVars, clientVars>>

\* lines 25-35 and the branch taken at 36/65/89
CheckMessages(c) ==
  /\ pc[c] = "checkMessages"
  /\ LET a == args[c]
         r == checkAndIncrementUsage(usage, "messages")
         base == [NoMessage EXCEPT !.senderId = a.userId]
         branch == PayloadBranch(a.file, a.audioBlob)
     IN  /\ usage' = r.usage
         /\ trace' = Ev(c, IF r.allowed THEN "messages+" ELSE "messages-")
         /\ IF MessagesDenied(r.allowed)
              THEN Throw(c, ERR_MESSAGES)
              ELSE CASE branch = "audio" ->
                          Continue(c, [pc |-> "uploadAudio", md |-> base])
                     [] branch = "file" ->
                          Continue(c, [pc |-> "checkStorage", md |-> base])
                     [] branch = "text" ->
                          Continue(c, AfterPayload(
                            [base EXCEPT !.type = "text",
                                         !.content = StringContent(Str(a.content))], a))
  /\ UNCHANGED <<usage0, blobStore, chatMessages, args, userData, inviteVars, clientVars>>

\* line 40: uploadBytes(storageRef, audioBlob)
UploadAudio(c) ==
  /\ pc[c] = "uploadAudio"
  /\ \E ok \in BOOLEAN :
       IF ok
         THEN /\ blobStore' = Append(blobStore, [call |-> c, bytes |-> args[c].audioBlob.size])
              /\ trace' = Ev(c, "upload")
              /\ Continue(c, [pc |-> "urlAudio", md |-> messageData[c]])
         ELSE /\ Throw(c, ERR_UPLOAD)
              /\ UNCHANGED <<blobStore, trace>>
  /\ UNCHANGED <<usage, usage0, chatMessages, args, userData, inviteVars, clientVars>>

\* lines 41-48: getDownloadURL, then messageData of the voice note
UrlAudio(c) ==
  /\ pc[c] = "urlAudio"
  /\ \E ok \in BOOLEAN :
       IF ok
         THEN Continue(c, [pc |-> "chargeAudio",
                           md |-> [messageData[c] EXCEPT
                                     !.type = "audio",
                                     !.content = StringContent(Str("voice.webm")),
                                     !.fileUrl = TRUE]])
         ELSE Throw(c, ERR_UPLOAD)
  /\ UNCHANGED <<usage, usage0, blobStore, chatMessages, args, userData, trace, inviteVars, clientVars>>

ChargeAudio_FileSize(c) ==
  /\ pc[c] = "chargeAudio"
  /\ usage' = incrementFileStorage(usage, args[c].file.size)
  /\ trace' = Ev(c, "charge")
  /\ Continue(c, [pc |-> "transcribe", md |-> messageData[c]])
  /\ UNCHANGED <<usage0, blobStore, chatMessages, args, userData, inviteVars, clientVars>>

\* line 51: incrementFileStorage(userId, audioBlob.size)
ChargeAudio(c) ==
  /\ pc[c] = "chargeAudio"
  /\ usage' = incrementFileStorage(usage, args[c].audioBlob.size)
  /\ trace' = Ev(c, "charge")
  /\ Continue(c, [pc |-> "transcribe", md |-> messageData[c]])
  /\ UNCHANGED <<usage0, blobStore, chatMessages, args, userData, inviteVars, clientVars>>

\* lines 54-64: the transcription call and its catch
Transcribe(c) ==
  /\ pc[c] = "transcribe"
  /\ \E ok \in BOOLEAN :
       /\ trace' = Ev(c, IF ok THEN "stt+" ELSE "stt-")
       /\ Continue(c, AfterPayload(
            [messageData[c] EXCEPT !.originalContent = OriginalContent(ok)],
            args[c]))
  /\ UNCHANGED <<usage, usage0, blobStore, chatMessages, args, userData, inviteVars, clientVars>>

\* lines 67-74: the capacity check, then the absolute cap
CheckStorage(c) ==
  /\ pc[c] = "checkStorage"
  /\ LET canUploadFile == checkFileStorageLimit(usage, args[c].file.size)
         rejection == FileRejection(canUploadFile, args[c].file.size)
     IN  /\ trace' = Ev(c, IF canUploadFile THEN "capacity+" ELSE "capacity-")
         /\ IF rejection # ""
              THEN Throw(c, rejection)
              ELSE Continue(c, [pc |-> "uploadFile", md |-> messageData[c]])
  /\ UNCHANGED <<usage, usage0, blobStore, chatMessages, args, userData, inviteVars, clientVars>>

\* line 77: uploadBytes(storageRef, file)
UploadFile(c) ==
  /\ pc[c] = "uploadFile"
  /\ \E ok \in BOOLEAN :
       IF ok
         THEN /\ blobStore' = Append(blobStore, [call |-> c, bytes |-> args[c].file.size])
              /\ trace' = Ev(c, "upload")
              /\ Continue(c, [pc |-> "urlFile", md |-> messageData[c]])
         ELSE /\ Throw(c, ERR_UPLOAD)
              /\ UNCHANGED <<blobStore, trace>>
  /\ UNCHANGED <<usage, usage0, chatMessages, args, userData, inviteVars, clientVars>>

\* lines 78-85: getDownloadURL, then messageData of the file
UrlFile(c) ==
  /\ pc[c] = "urlFile"
  /\ \E ok \in BOOLEAN :
       IF ok
         THEN Continue(c, [pc |-> "chargeFile",
                           md |-> [messageData[c] EXCEPT
                                     !.type = FileType(args[c].file.type),
                                     !.content = StringContent(Str(args[c].file.name)),
                                     !.fileUrl = TRUE]])
         ELSE Throw(c, ERR_UPLOAD)
  /\ UNCHANGED <<usage, usage0, blobStore, chatMessages, args, userData, trace, inviteVars, clientVars>>

\* line 88: incrementFileStorage(userId, file.size)
ChargeFile(c) ==
  /\ pc[c] = "chargeFile"
  /\ usage' = incrementFileStorage(usage, args[c].file.size)
  /\ trace' = Ev(c, "charge")
  /\ Continue(c, AfterPayload(messageData[c], args[c]))
  /\ UNCHANGED <<usage0, blobStore, chatMessages, args, userData, inviteVars, clientVars>>

\* lines 107-108: getDoc(doc(db, "users", otherParticipantId))
GetProfile(c) ==
  /\ pc[c] = "getProfile"
  /\ \E ok \in BOOLEAN, d \in ProfileDocs :
       IF ok
         THEN /\ userData' = [userData EXCEPT ![c] = d]
              /\ Continue(c, [pc |-> IF d.exists THEN "checkTrPrivate" ELSE "persist",
                              md |-> messageData[c]])
         ELSE /\ Throw(c, ERR_STORE)
              /\ UNCHANGED userData
  /\ UNCHANGED <<usage, usage0, blobStore, chatMessages, args, trace, inviteVars, clientVars>>

\* lines 111-121: the translations check of a private chat
CheckTrPrivate(c) ==
  /\ pc[c] = "checkTrPrivate"
  /\ LET r == checkAndIncrementUsage(usage, "translations")
         text == TextToTranslate(messageData[c], args[c].content)
     IN  /\ usage' = r.usage
         /\ trace' = Ev(c, IF r.allowed THEN "translations+" ELSE "translations-")
         /\ IF r.allowed
              THEN Continue(c, [pc |-> "translatePrivate", md |-> messageData[c]])
              ELSE Continue(c, [pc |-> "persist",
                                md |-> [messageData[c] EXCEPT
                                          !.content = DeniedContent(text)]])
  /\ UNCHANGED <<usage0, blobStore, chatMessages, args, userData, inviteVars, clientVars>>

\* lines 113-117: translateMessage to the other participant's language
TranslatePrivate(c) ==
  /\ pc[c] = "translatePrivate"
  /\ \E ok \in BOOLEAN :
       /\ trace' = Ev(c, IF ok THEN "translate+" ELSE "translate-")
       /\ Continue(c, [pc |-> "persist",
                       md |-> [messageData[c] EXCEPT !.content =
                                 StringContent(translateMessage(
                                   TextToTranslate(messageData[c], args[c].content),
                                   TargetLang(userData[c]), ok))]])
  /\ UNCHANGED <<usage, usage0, blobStore, chatMessages, args, userData, inviteVars, clientVars>>

\* a unit of the fan-out has ended: its check was denied, or its translation
\* call returned (ok) or failed
UnitEnded == {"denied", "ok", "failed"}

Join_Race(c, us, tr) ==
  IF \E i \in DOMAIN us : us[i] \in UnitEnded
    THEN /\ pc' = [pc EXCEPT ![c] = "persist"]
         /\ messageData' = [messageData EXCEPT ![c].content = MapContent(tr)]
    ELSE UNCHANGED <<pc, messageData>>

\* lines 126-138: Promise.all resolves once every unit has ended; then line 138
Join(c, us, tr) ==
  IF \A i \in DOMAIN us : us[i] \in UnitEnded
    THEN /\ pc' = [pc EXCEPT ![c] = "persist"]
         /\ messageData' = [messageData EXCEPT ![c].content = MapContent(tr)]
    ELSE UNCHANGED <<pc, messageData>>

\* lines 129-135: the translations check of unit i of the fan-out
UnitCheck(c, i) ==
  /\ pc[c] = "fanout"
  /\ i \in DOMAIN units[c]
  /\ units[c][i] = "check"
  /\ LET r == checkAndIncrementUsage(usage, "translations")
         lang == args[c].participantLanguages[i]
         text == TextToTranslate(messageData[c], args[c].content)
         us == [units[c] EXCEPT ![i] = IF r.allowed THEN "translate" ELSE "denied"]
         tr == IF r.allowed THEN translations[c]
               ELSE [translations[c] EXCEPT ![lang] = DeniedEntry(text, lang)]
     IN  /\ usage' = r.usage
         /\ trace' = Ev(c, IF r.allowed THEN "translations+" ELSE "translations-")
         /\ units' = [units EXCEPT ![c] = us]
         /\ translations' = [translations EXCEPT ![c] = tr]
         /\ Join(c, us, tr)
  /\ UNCHANGED <<usage0, blobStore, chatMessages, args, userData, result, inviteVars, clientVars>>

\* line 131: translateMessage of unit i and the write of its entry
UnitTranslate(c, i) ==
  /\ pc[c] = "fanout"
  /\ i \in DOMAIN units[c]
  /\ units[c][i] = "translate"
  /\ \E ok \in BOOLEAN :
       LET lang == args[c].participantLanguages[i]
           text == TextToTranslate(messageData[c], args[c].content)
           us == [units[c] EXCEPT ![i] = IF ok THEN "ok" ELSE "failed"]
           tr == [translations[c] EXCEPT ![lang] = translateMessage(text, lang, ok)]
       IN  /\ trace' = Ev(c, IF ok THEN "translate+" ELSE "translate-")
           /\ units' = [units EXCEPT ![c] = us]
           /\ translations' = [translations EXCEPT ![c] = tr]
           /\ Join(c, us, tr)
  /\ UNCHANGED <<usage, usage0, blobStore, chatMessages, args, userData, result, inviteVars, clientVars>>

\* lines 143-146: the aiInteractions check of an ai chat
CheckAI(c) ==
  /\ pc[c] = "checkAI"
  /\ LET r == checkAndIncrementUsage(usage, "aiInteractions")
     IN  /\ usage' = r.usage
         /\ trace' = Ev(c, IF r.allowed THEN "ai+" ELSE "ai-")
         /\ IF AiDenied(r.allowed)
              THEN Throw(c, ERR_AI)
              ELSE Continue(c, [pc |-> "persist", md |-> messageData[c]])
  /\ UNCHANGED <<usage0, blobStore, chatMessages, args, userData, inviteVars, clientVars>>

\* line 151: addDoc(collection(db, `chats/${chatId}/messages`), messageData)
Persist(c) ==
  /\ pc[c] = "persist"
  /\ \E ok \in BOOLEAN :
       IF ok
         THEN /\ chatMessages' = Append(chatMessages, [call |-> c, data |-> messageData[c]])
              /\ trace' = Ev(c, "append")
              /\ pc' = [pc EXCEPT ![c] = "done"]
              /\ result' = [result EXCEPT ![c] = Ok]
              /\ UNCHANGED <<messageData, units, translations>>
         ELSE /\ Throw(c, ERR_STORE)
              /\ UNCHANGED <<chatMessages, trace>>
  /\ UNCHANGED <<usage, usage0, blobStore, args, userData, inviteVars, clientVars>>

\* every step of sendMessage after the call itself
Step(c) ==
  \/ CheckMessages(c)
  \/ UploadAudio(c)
  \/ UrlAudio(c)
  \/ ChargeAudio(c)
  \/ Transcribe(c)
  \/ CheckStorage(c)
  \/ UploadFile(c)
  \/ UrlFile(c)
  \/ ChargeFile(c)
  \/ GetProfile(c)
  \/ CheckTrPrivate(c)
  \/ TranslatePrivate(c)
  \/ \E i \in 1..MaxLangs : UnitCheck(c, i)
  \/ \E i \in 1..MaxLangs : UnitTranslate(c, i)
  \/ CheckAI(c)
  \/ Persist(c)

(***************************************************************************)
(* Chat creation (CreateNewChat) and invitation acceptance                 *)
(* (AcceptInvitation).                                                     *)
(***************************************************************************)
Visitors == {UserB, UserC}
ChatTypes == {"private", "group", "ai"}
NoToken == 0
NoChatDoc == [exists |-> FALSE, type |-> "", participants |-> <<>>, createdBy |-> NoUser]
Email(u) == <<u, "@mail">>
NoEmail == <<>>
InvitedEmail == <<"new", "@mail">>

arrayUnion_Append(arr, x) == Append(arr, x)

arrayUnion_Overwrite(arr, x) == <<x>>

\* arrayUnion(x) applied to an array field
arrayUnion(arr, x) == IF x \in SeqToSet(arr) THEN arr ELSE Append(arr, x)

\* `${window.location.origin}/invite?token=${chatId}` and `${origin}/chat/${chatId}`
InvitationLink(chatId) == <<"origin", "invite?token=", chatId>>
ChatLink(chatId) == <<"origin", "chat", chatId>>
NoLink == <<>>
\* link.split('/').pop(): the text after the last slash
LastSegment(link) == IF link[2] = "chat" THEN <<link[3]>> ELSE <<link[2], link[3]>>

FreshUi(t, su) ==
  [open |-> TRUE, chatType |-> t, sessionUser |-> su, selectedUsers |-> <<>>,
   showInvite |-> FALSE, createWithoutUsers |-> FALSE, inviteEmail |-> NoEmail,
   chatLink |-> NoLink, isLoading |-> FALSE, error |-> FALSE]
ClosedUi == [FreshUi("private", NoUser) EXCEPT !.open = FALSE]

IdleHandler ==
  [pc |-> "idle", viaCreate |-> FALSE, chatId |-> 0, sel |-> <<>>, cwu |-> FALSE,
   email |-> NoEmail, i |-> 0]

\* the component is opened with a chat type (its props) and the session
Mount(t, su) ==
  /\ ~ui.open
  /\ handler.pc = "idle"
  /\ ui' = FreshUi(t, su)
  /\ UNCHANGED <<chats, invitations, handler, visitor, sendVars, clientVars>>

\* the X button: onClose
Close ==
  /\ ui.open
  /\ handler.pc = "idle"
  /\ ui' = ClosedUi
  /\ UNCHANGED <<chats, invitations, handler, visitor, sendVars, clientVars>>

\* lines 142-147
handleSelectUser(u, user) ==
  [u EXCEPT !.selectedUsers = IF user \in SeqToSet(@) THEN @ ELSE Append(@, user),
            !.showInvite = FALSE]

\* lines 118-140: found is the first user the query returned, NoUser if none
handleSearch(found, searchType) ==
  /\ ui.open
  /\ ui.chatType # "ai"
  /\ handler.pc = "idle"
  /\ ui' = IF found # NoUser
             THEN IF found # ui.sessionUser THEN handleSelectUser(ui, found) ELSE ui
             ELSE [ui EXCEPT !.showInvite = TRUE,
                             !.inviteEmail = IF searchType = "email" THEN InvitedEmail
                                             ELSE NoEmail]
  /\ UNCHANGED <<chats, invitations, handler, visitor, sendVars, clientVars>>

\* lines 149-151
handleRemoveUser(userId) ==
  /\ ui.open
  /\ handler.pc = "idle"
  /\ userId \in SeqToSet(ui.selectedUsers)
  /\ ui' = [ui EXCEPT !.selectedUsers = SelectSeq(@, LAMBDA x : x # userId)]
  /\ UNCHANGED <<chats, invitations, handler, visitor, sendVars, clientVars>>

\* line 381: the "create chat without adding users" checkbox
ToggleCreateWithoutUsers ==
  /\ ui.open
  /\ ui.chatType # "ai"
  /\ handler.pc = "idle"
  /\ ui' = [ui EXCEPT !.createWithoutUsers = ~@]
  /\ UNCHANGED <<chats, invitations, handler, visitor, sendVars, clientVars>>

\* lines 193-195: TRUE when handleCreateChat returns at once
CreateGuard(u) ==
  \/ u.sessionUser = NoUser
  \/ (u.chatType = "private" /\ Len(u.selectedUsers) # 1 /\ ~u.showInvite
        /\ ~u.createWithoutUsers)
  \/ (u.chatType = "group" /\ Len(u.selectedUsers) = 0 /\ ~u.createWithoutUsers)

\* lines 157-162: the chat document handleInvite writes
InviteChatData(u) ==
  [exists |-> TRUE, type |-> "private", participants |-> <<u.sessionUser>>,
   createdBy |-> u.sessionUser]

\* lines 204-211: the chat document handleCreateChat writes
CreateChatData(u) ==
  [exists |-> TRUE, type |-> u.chatType, participants |-> <<u.sessionUser>>,
   createdBy |-> u.sessionUser]

DirectAdd_IgnoreCheckbox(u, h) == u.chatType = "private" /\ Len(h.sel) = 1

\* line 218: the recipient is added directly
DirectAdd(u, h) == u.chatType = "private" /\ Len(h.sel) = 1 /\ ~h.cwu

\* lines 185-189: the invitation record sendInvitation writes
InvitationRecord(link, email) == [chatId |-> LastSegment(link), email |-> email]

\* the handler ends: its finally block, and the state it leaves
Finish(u) ==
  /\ handler' = IdleHandler
  /\ ui' = IF ui.open THEN [u EXCEPT !.isLoading = FALSE] ELSE ui

\* lines 153-155 (the Invite button) : handleInvite up to its first await
ClickInvite ==
  /\ ui.open
  /\ ui.showInvite
  /\ ui.chatType # "ai"
  /\ handler.pc = "idle"
  /\ Len(chats) < MaxChats
  /\ ui.sessionUser # NoUser
  /\ ui' = [ui EXCEPT !.isLoading = TRUE]
  /\ handler' = [IdleHandler EXCEPT !.pc = "invite_addDoc", !.email = ui.inviteEmail]
  /\ UNCHANGED <<chats, invitations, visitor, sendVars, clientVars>>

\* lines 192-202 (the Create Chat button): handleCreateChat up to its first await
ClickCreate ==
  /\ ui.open
  /\ ui.chatLink = NoLink
  /\ ~ui.isLoading
  /\ handler.pc = "idle"
  /\ Len(chats) < MaxChats
  /\ ~CreateGuard(ui)
  /\ ui' = [ui EXCEPT !.isLoading = TRUE]
  /\ handler' =
       IF ui.chatType = "private" /\ ui.showInvite
         THEN [IdleHandler EXCEPT !.pc = "invite_addDoc", !.viaCreate = TRUE,
                                  !.email = ui.inviteEmail]
         ELSE [IdleHandler EXCEPT !.pc = "create_addDoc", !.sel = ui.selectedUsers,
                                  !.cwu = ui.createWithoutUsers]
  /\ UNCHANGED <<chats, invitations, visitor, sendVars, clientVars>>

\* line 164: addDoc(collection(db, 'chats'), chatData) of handleInvite
InviteAddDoc ==
  /\ handler.pc = "invite_addDoc"
  /\ \E ok \in BOOLEAN :
       IF ok
         THEN /\ chats' = Append(chats, InviteChatData(ui))
              /\ handler' = [handler EXCEPT !.pc = "invite_send", !.chatId = Len(chats) + 1]
              /\ UNCHANGED ui
         ELSE /\ Finish([ui EXCEPT !.error = TRUE])
              /\ UNCHANGED chats
  /\ UNCHANGED <<invitations, visitor, sendVars, clientVars>>

\* lines 169-173: sendInvitation, then the link is shown and the dialog closed
InviteSend ==
  /\ handler.pc = "invite_send"
  /\ \E ok \in BOOLEAN :
       IF ok
         THEN /\ invitations' = Append(invitations,
                   InvitationRecord(InvitationLink(handler.chatId), handler.email))
              /\ handler' = IdleHandler
              /\ ui' = ClosedUi
         ELSE /\ Finish([ui EXCEPT !.error = TRUE])
              /\ UNCHANGED invitations
  /\ UNCHANGED <<chats, visitor, sendVars, clientVars>>

\* lines 213-231: addDoc of the chat, then the branch on the recipients
CreateAddDoc ==
  /\ handler.pc = "create_addDoc"
  /\ \E ok \in BOOLEAN :
       IF ok
         THEN /\ chats' = Append(chats, CreateChatData(ui))
              /\ LET chatId == Len(chats) + 1
                     linked == [ui EXCEPT !.chatLink = InvitationLink(chatId)]
                 IN  IF DirectAdd(ui, handler)
                       THEN /\ handler' = [handler EXCEPT !.pc = "create_updateDoc",
                                                          !.chatId = chatId]
                            /\ UNCHANGED ui
                       ELSE IF ~handler.cwu /\ Len(handler.sel) > 0
                              THEN /\ handler' = [handler EXCEPT !.pc = "create_send",
                                                                 !.chatId = chatId, !.i = 1]
                                   /\ ui' = linked
                              ELSE Finish(linked)
         ELSE /\ Finish([ui EXCEPT !.error = TRUE])
              /\ UNCHANGED chats
  /\ UNCHANGED <<invitations, visitor, sendVars, clientVars>>

\* lines 219-222: updateDoc with arrayUnion(selectedUsers[0].id)
CreateUpdateDoc ==
  /\ handler.pc = "create_updateDoc"
  /\ \E ok \in BOOLEAN :
       IF ok
         THEN /\ chats' = [chats EXCEPT ![handler.chatId].participants =
                                          arrayUnion(@, handler.sel[1])]
              /\ Finish([ui EXCEPT !.chatLink = ChatLink(handler.chatId)])
         ELSE /\ Finish([ui EXCEPT !.error = TRUE])
              /\ UNCHANGED chats
  /\ UNCHANGED <<invitations, visitor, sendVars, clientVars>>

\* lines 227-229: one sendInvitation per selected user
CreateSend ==
  /\ handler.pc = "create_send"
  /\ \E ok \in BOOLEAN :
       IF ok
         THEN /\ invitations' = Append(invitations,
                   InvitationRecord(InvitationLink(handler.chatId),
                                    Email(handler.sel[handler.i])))
              /\ IF handler.i < Len(handler.sel)
                   THEN /\ handler' = [handler EXCEPT !.i = @ + 1]
                        /\ UNCHANGED ui
                   ELSE Finish(ui)
         ELSE /\ Finish([ui EXCEPT !.error = TRUE])
              /\ UNCHANGED invitations
  /\ UNCHANGED <<chats, visitor, sendVars, clientVars>>

AcceptanceError_OffByOne(chatSnap) ==
  IF ~chatSnap.exists THEN "Invalid invitation"
  ELSE IF chatSnap.type = "private" /\ Len(chatSnap.participants) > 2
    THEN "This private chat already has two members"
  ELSE IF chatSnap.type = "ai" THEN "AI chats do not support invitations"
  ELSE ""

AcceptanceError_AiAllowed(chatSnap) ==
  IF ~chatSnap.exists THEN "Invalid invitation"
  ELSE IF chatSnap.type = "private" /\ Len(chatSnap.participants) >= 2
    THEN "This private chat already has two members"
  ELSE ""

AcceptanceError_AiMisspelt(chatSnap) ==
  IF ~chatSnap.exists THEN "Invalid invitation"
  ELSE IF chatSnap.type = "private" /\ Len(chatSnap.participants) >= 2
    THEN "This private chat already has two members"
  ELSE IF chatSnap.type = "AI" THEN "AI chats do not support invitations"
  ELSE ""

\* lines 813-825: the error handleAcceptInvitation throws on the chat it read
\* ("" if none)
AcceptanceError(chatSnap) ==
  IF ~chatSnap.exists THEN "Invalid invitation"
  ELSE IF chatSnap.type = "private" /\ Len(chatSnap.participants) >= 2
    THEN "This private chat already has two members"
  ELSE IF chatSnap.type = "ai" THEN "AI chats do not support invitations"
  ELSE ""

FreshVisitor(tok) ==
  [status |-> "loading", userId |-> NoUser, token |-> tok, state |-> "loading",
   pc |-> "idle", error |-> "", changes |-> 0, writes |-> 0]

\* lines 795-807: the session status changes and the effect runs; with an
\* authenticated session and a token it calls handleAcceptInvitation, which
\* runs up to its getDoc
SessionChange(v, s, uid) ==
  /\ visitor[v].pc = "idle"
  /\ visitor[v].changes < MaxStatusChanges
  /\ s # visitor[v].status
  /\ uid \in (IF s = "authenticated" THEN {v, NoUser} ELSE {NoUser})
  /\ LET w == [visitor[v] EXCEPT !.status = s, !.userId = uid, !.changes = @ + 1]
     IN  visitor' = [visitor EXCEPT ![v] =
           IF s = "authenticated" /\ w.token # NoToken
             THEN IF uid = NoUser THEN w
                  ELSE [w EXCEPT !.state = "accepting", !.pc = "getDoc"]
             ELSE IF s = "unauthenticated"
                    THEN [w EXCEPT !.state = "error",
                                   !.error = "You must be signed in to accept an invitation"]
                    ELSE w]
  /\ UNCHANGED <<chats, invitations, ui, handler, sendVars, clientVars>>

\* lines 810-825: getDoc(chatRef) and the checks on the chat it returned
AcceptGetDoc(v) ==
  /\ visitor[v].pc = "getDoc"
  /\ \E ok \in BOOLEAN :
       LET chatSnap == IF visitor[v].token \in DOMAIN chats
                         THEN chats[visitor[v].token] ELSE NoChatDoc
           msg == IF ok THEN AcceptanceError(chatSnap) ELSE "Failed to accept invitation"
       IN  visitor' = [visitor EXCEPT ![v] =
             IF msg # ""
               THEN [@ EXCEPT !.state = "error", !.error = msg, !.pc = "idle"]
               ELSE [@ EXCEPT !.pc = "updateDoc"]]
  /\ UNCHANGED <<chats, invitations, ui, handler, sendVars, clientVars>>

\* lines 828-832: updateDoc with arrayUnion(session.user.id)
AcceptUpdateDoc(v) ==
  /\ visitor[v].pc = "updateDoc"
  /\ \E ok \in BOOLEAN :
       IF ok
         THEN /\ chats' = [chats EXCEPT ![visitor[v].token].participants =
                                          arrayUnion(@, visitor[v].userId)]
              /\ visitor' = [visitor EXCEPT ![v].state = "redirecting", ![v].pc = "idle",
                                            ![v].writes = @ + 1]
         ELSE /\ visitor' = [visitor EXCEPT ![v].state = "error",
                                            ![v].error = "Failed to accept invitation",
                                            ![v].pc = "idle"]
              /\ UNCHANGED chats
  /\ UNCHANGED <<invitations, ui, handler, sendVars, clientVars>>

(***************************************************************************)
(* MessageInput: handleSendMessage, handleRecordingComplete and the        *)
(* VoiceRecorder that feeds it.                                            *)
(***************************************************************************)
Messages == {"", " ", "hi"}
\* handleEmojiClick appends the emoji to the typed text
WithEmoji(m) ==
  CASE m = "" -> ":)"
    [] m = " " -> " :)"
    [] m = "hi" -> "hi:)"
    [] OTHER -> m

FreshInput ==
  [message |-> "", file |-> FALSE, isSending |-> FALSE, isRecording |-> FALSE,
   isAudioSending |-> FALSE, audioSendingError |-> FALSE, audioPc |-> "idle",
   recorded |-> 0, ignored |-> FALSE]

\* one call of onSendMessage(content, file, audioBlob) and how it settled
Dispatch(by, content, file, audio) ==
  [by |-> by, content |-> content, file |-> file, audio |-> audio,
   outcome |-> "pending"]

\* the textarea and the file input are disabled
InputDisabled(in) == in.isSending \/ in.isRecording \/ in.isAudioSending

\* nothing to send: no text after trimming and no file
NothingToSend(in) == Trim(in.message) = "" /\ ~in.file

SendGuard_NoSendingCheck(in) == NothingToSend(in)

\* line 169: TRUE when handleSendMessage returns at once
SendGuard(in) == NothingToSend(in) \/ in.isSending

\* lines 167-177: handleSendMessage up to its await of onSendMessage;
\* ignored records that the call returned at line 169
StartSend(in) ==
  IF SendGuard(in)
    THEN /\ input' = [in EXCEPT !.ignored = TRUE]
         /\ UNCHANGED dispatched
    ELSE /\ input' = [in EXCEPT !.isSending = TRUE, !.ignored = FALSE]
         /\ dispatched' = Append(dispatched,
              IF in.file THEN Dispatch("handleSendMessage", "", TRUE, FALSE)
              ELSE Dispatch("handleSendMessage", Trim(in.message), FALSE, FALSE))

\* line 243: the user types
Type(m) ==
  /\ ~InputDisabled(input)
  /\ input' = [input EXCEPT !.message = m]
  /\ UNCHANGED <<dispatched, store, requests, sendVars, inviteVars>>

\* lines 194-196
handleEmojiClick ==
  /\ input.message \in Messages
  /\ input' = [input EXCEPT !.message = WithEmoji(@)]
  /\ UNCHANGED <<dispatched, store, requests, sendVars, inviteVars>>

\* line 222 (form submit) and lines 187-192 (Enter): handleSendMessage
Submit ==
  /\ Len(dispatched) < MaxDispatches
  /\ StartSend(input)
  /\ UNCHANGED <<store, requests, sendVars, inviteVars>>

\* line 236: a file is picked and handleSendMessage is called at once
SelectFile ==
  /\ Len(dispatched) < MaxDispatches
  /\ ~InputDisabled(input)
  /\ ~input.file
  /\ StartSend([input EXCEPT !.file = TRUE])
  /\ UNCHANGED <<store, requests, sendVars, inviteVars>>

\* lines 178-184: onSendMessage settled; the input is cleared after a
\* success, and the finally block resets isSending
SendSettled(i, ok) ==
  /\ dispatched' = [dispatched EXCEPT ![i].outcome = IF ok THEN "ok" ELSE "failed"]
  /\ input' = IF ok
                THEN [input EXCEPT !.message = "", !.file = FALSE, !.isSending = FALSE]
                ELSE [input EXCEPT !.isSending = FALSE]

\* the await of line 174/176 returns or throws
SendReturn(i) ==
  /\ i \in DOMAIN dispatched
  /\ dispatched[i].by = "handleSendMessage"
  /\ dispatched[i].outcome = "pending"
  /\ \E ok \in BOOLEAN : SendSettled(i, ok)
  /\ UNCHANGED <<store, requests, sendVars, inviteVars>>

\* lines 251-273: the VoiceRecorder is rendered
RecorderShown(in) == NothingToSend(in) /\ ~in.isAudioSending

\* VoiceRecorder.startRecording
startRecording ==
  /\ RecorderShown(input)
  /\ ~input.isRecording
  /\ input.recorded < MaxRecordings
  /\ input' = [input EXCEPT !.isRecording = TRUE]
  /\ UNCHANGED <<dispatched, store, requests, sendVars, inviteVars>>

\* VoiceRecorder.stopRecording; the recorder's onstop hands the blob to
\* handleRecordingComplete, which runs up to its transcription call
\* (lines 198-206)
stopRecording ==
  /\ RecorderShown(input)
  /\ input.isRecording
  /\ input' = [input EXCEPT !.isRecording = FALSE, !.isAudioSending = TRUE,
                            !.audioSendingError = FALSE, !.audioPc = "stt",
                            !.recorded = @ + 1]
  /\ UNCHANGED <<dispatched, store, requests, sendVars, inviteVars>>

\* lines 206-211 and 212-217: the transcription call returns and the blob is
\* handed to onSendMessage, or it fails and the catch and finally blocks run
SttReturn ==
  /\ input.audioPc = "stt"
  /\ \E ok \in BOOLEAN :
       IF ok
         THEN /\ dispatched' = Append(dispatched,
                   Dispatch("handleRecordingComplete", "transcript", FALSE, TRUE))
              /\ input' = [input EXCEPT !.audioPc = "send"]
         ELSE /\ input' = [input EXCEPT !.audioPc = "idle", !.isAudioSending = FALSE,
                                        !.audioSendingError = TRUE]
              /\ UNCHANGED dispatched
  /\ UNCHANGED <<store, requests, sendVars, inviteVars>>

\* lines 211-217: onSendMessage of the voice note settled
AudioSendReturn(i) ==
  /\ input.audioPc = "send"
  /\ i \in DOMAIN dispatched
  /\ dispatched[i].by = "handleRecordingComplete"
  /\ dispatched[i].outcome = "pending"
  /\ \E ok \in BOOLEAN :
       /\ dispatched' = [dispatched EXCEPT ![i].outcome = IF ok THEN "ok" ELSE "failed"]
       /\ input' = [input EXCEPT !.audioPc = "idle", !.isAudioSending = FALSE,
                                 !.audioSendingError = IF ok THEN @ ELSE TRUE]
  /\ UNCHANGED <<store, requests, sendVars, inviteVars>>

\* lines 155-165: the error is cleared after 5 seconds
ClearAudioError ==
  /\ input.audioSendingError
  /\ input' = [input EXCEPT !.audioSendingError = FALSE]
  /\ UNCHANGED <<dispatched, store, requests, sendVars, inviteVars>>

(***************************************************************************)
(* useUserStore: fetchUserInfo.                                            *)
(***************************************************************************)
NoProfile == <<>>
Profile(uid) == <<"profile", uid>>
FreshStore == [currentUser |-> NoProfile, isLoading |-> TRUE]
Uids == {NoUser, UserA, UserB}

\* lines 21-29: what the call sets after its getDoc
FetchedUser(uid, outcome) == IF outcome = "exists" THEN Profile(uid) ELSE NoProfile

\* lines 14-19: the call, up to its getDoc
fetchUserInfo(uid) ==
  /\ Len(requests) < MaxFetches
  /\ IF uid = NoUser
       THEN /\ store' = [currentUser |-> NoProfile, isLoading |-> FALSE]
            /\ requests' = Append(requests,
                 [uid |-> uid, pc |-> "done", result |-> NoProfile])
       ELSE /\ requests' = Append(requests,
                 [uid |-> uid, pc |-> "getDoc", result |-> NoProfile])
            /\ UNCHANGED store
  /\ UNCHANGED <<input, dispatched, sendVars, inviteVars>>

\* lines 19-29: getDoc returns an existing or a missing document, or throws
FetchReturn(i) ==
  /\ i \in DOMAIN requests
  /\ requests[i].pc = "getDoc"
  /\ \E outcome \in {"exists", "missing", "error"} :
       /\ store' = [currentUser |-> FetchedUser(requests[i].uid, outcome),
                    isLoading |-> FALSE]
       /\ requests' = [requests EXCEPT
                         ![i].pc = "done",
                         ![i].result = FetchedUser(requests[i].uid, outcome)]
  /\ UNCHANGED <<input, dispatched, sendVars, inviteVars>>

\* no MessageInput is in use and no fetchUserInfo was called
ClientIdle ==
  /\ input = FreshInput
  /\ dispatched = <<>>
  /\ store = FreshStore
  /\ requests = <<>>

InviteIdle ==
  /\ chats = <<>>
  /\ invitations = <<>>
  /\ ui = ClosedUi
  /\ handler = IdleHandler
  /\ visitor = [v \in Visitors |-> FreshVisitor(NoToken)]

\* CreateNewChat alone: nobody visits a link
CreateStart == InviteIdle

\* a chat document as creation leaves it
CreatedChats ==
  { [exists |-> TRUE, type |-> t, participants |-> <<UserA>>, createdBy |-> UserA] :
      t \in ChatTypes }
  \cup
  { [exists |-> TRUE, type |-> "private", participants |-> <<UserA, u>>,
     createdBy |-> UserA] : u \in Visitors }

\* handleCreateChat of a private chat suspended at its updateDoc, which will
\* add the selected user u to chat k
PendingDirectAdd(k, u) ==
  [IdleHandler EXCEPT !.pc = "create_updateDoc", !.chatId = k, !.sel = <<u>>]

\* AcceptInvitation: the chats creation has written so far, possibly with a
\* creation of the last chat still waiting for its updateDoc, and the visitors
\* on their links
AcceptStart ==
  /\ chats \in SeqsUpTo(CreatedChats, MaxChats)
  /\ invitations = <<>>
  /\ \/ handler = IdleHandler /\ ui = ClosedUi
     \/ /\ chats # <<>>
        /\ chats[Len(chats)].type = "private"
        /\ Len(chats[Len(chats)].participants) = 1
        /\ \E u \in Visitors :
             /\ handler = PendingDirectAdd(Len(chats), u)
             /\ ui = [FreshUi("private", UserA) EXCEPT !.selectedUsers = <<u>>,
                                                       !.isLoading = TRUE]
  /\ visitor \in [Visitors -> {FreshVisitor(tok) : tok \in 0..MaxChats}]

StorageUsages == {0, StorageLimit - MAX_FILE_SIZE, StorageLimit - 1}

SendStart ==
  /\ usage \in { [r \in Resources |->
                  CASE r = "messages" -> m
                    [] r = "translations" -> t
                    [] r = "aiInteractions" -> i
                    [] r = "fileStorage" -> s] :
                m \in 0..MsgLimit, t \in 0..TrLimit, i \in 0..AiLimit, s \in StorageUsages }
  /\ usage0 = usage
  /\ blobStore = <<>>
  /\ chatMessages = <<>>
  /\ pc = [c \in Calls |-> "idle"]
  /\ args = [c \in Calls |-> NoArgs]
  /\ messageData = [c \in Calls |-> NoMessage]
  /\ userData = [c \in Calls |-> NoDoc]
  /\ units = [c \in Calls |-> <<>>]
  /\ translations = [c \in Calls |-> NoTranslations]
  /\ result = [c \in Calls |-> Pending]
  /\ trace = [c \in Calls |-> <<>>]

InitSend == SendStart /\ InviteIdle /\ ClientIdle

\* one sendMessage call, over every argument
NextSend == Invoke("c1", AllArgs) \/ Step("c1")

SpecSend == InitSend /\ [][NextSend]_vars

SendIdle ==
  /\ usage = [r \in Resources |-> 0]
  /\ usage0 = usage
  /\ blobStore = <<>>
  /\ chatMessages = <<>>
  /\ pc = [c \in Calls |-> "idle"]
  /\ args = [c \in Calls |-> NoArgs]
  /\ messageData = [c \in Calls |-> NoMessage]
  /\ userData = [c \in Calls |-> NoDoc]
  /\ units = [c \in Calls |-> <<>>]
  /\ translations = [c \in Calls |-> NoTranslations]
  /\ result = [c \in Calls |-> Pending]
  /\ trace = [c \in Calls |-> <<>>]

InitCreate == CreateStart /\ SendIdle /\ ClientIdle

NextCreate ==
  \/ \E t \in ChatTypes, su \in {UserA, NoUser} : Mount(t, su)
  \/ Close
  \/ \E found \in {NoUser, UserA, UserB, UserC}, st \in {"username", "email"} :
       handleSearch(found, st)
  \/ \E u \in {UserB, UserC} : handleRemoveUser(u)
  \/ ToggleCreateWithoutUsers
  \/ ClickInvite
  \/ ClickCreate
  \/ InviteAddDoc
  \/ InviteSend
  \/ CreateAddDoc
  \/ CreateUpdateDoc
  \/ CreateSend

SpecCreate == InitCreate /\ [][NextCreate]_vars

InitAccept == AcceptStart /\ SendIdle /\ ClientIdle

NextAccept ==
  \/ \E v \in Visitors, s \in {"authenticated", "unauthenticated"},
        uid \in {NoUser} \cup Visitors : SessionChange(v, s, uid)
  \/ \E v \in Visitors : AcceptGetDoc(v)
  \/ \E v \in Visitors : AcceptUpdateDoc(v)
  \/ CreateUpdateDoc

SpecAccept == InitAccept /\ [][NextAccept]_vars

\* MessageInput alone
InitInput == ClientIdle /\ SendIdle /\ InviteIdle

NextInput ==
  \/ \E m \in Messages : Type(m)
  \/ handleEmojiClick
  \/ Submit
  \/ SelectFile
  \/ \E i \in 1..(MaxDispatches + MaxRecordings) : SendReturn(i)
  \/ startRecording
  \/ stopRecording
  \/ SttReturn
  \/ \E i \in 1..(MaxDispatches + MaxRecordings) : AudioSendReturn(i)
  \/ ClearAudioError

SpecInput == InitInput /\ [][NextInput]_vars

\* every call of onSendMessage and of the transcription service settles
SpecInputLive ==
  /\ SpecInput
  /\ \A i \in 1..(MaxDispatches + MaxRecordings) :
       WF_vars(SendReturn(i)) /\ WF_vars(AudioSendReturn(i))
  /\ WF_vars(SttReturn)

\* useUserStore alone
InitStore == ClientIdle /\ SendIdle /\ InviteIdle

NextStore ==
  \/ \E uid \in Uids : fetchUserInfo(uid)
  \/ \E i \in 1..MaxFetches : FetchReturn(i)

SpecStore == InitStore /\ [][NextStore]_vars

(***************************************************************************)
(* What a call has done so far.                                            *)
(***************************************************************************)
Has(c, e) == \E i \in DOMAIN trace[c] : trace[c][i] = e
Times(c, e) == Cardinality({i \in DOMAIN trace[c] : trace[c][i] = e})
AppendedBy(c) == {i \in DOMAIN chatMessages : chatMessages[i].call = c}
UploadedBy(c) == {i \in DOMAIN blobStore : blobStore[i].call = c}
\* the call passed its input guard
Entered(c) == pc[c] # "idle" /\ result[c] # Returned
Finished(c) == Entered(c) /\ pc[c] = "done"
OtherCounters == {"fileStorage", "translations", "aiInteractions"}
\* the text a text or audio send hands to translation
InputText(c) ==
  IF args[c].audioBlob.some THEN messageData[c].originalContent
  ELSE Str(args[c].content)

(***************************************************************************)
(* Claims about one sendMessage call (SpecSend).                           *)
(***************************************************************************)
\* C1: a call made while the messages counter equals the limit ends with the
\* message-quota error, appends nothing, uploads nothing and leaves the
\* fileStorage, translations and aiInteractions counters as they were.
C1_MessagesQuotaStop ==
  \A c \in Calls :
    (Entered(c) /\ pc[c] # "checkMessages" /\ usage0["messages"] = MsgLimit) =>
      /\ pc[c] = "done"
      /\ result[c] = Thrown(ERR_MESSAGES)
      /\ AppendedBy(c) = {}
      /\ UploadedBy(c) = {}
      /\ \A r \in OtherCounters : usage[r] = usage0[r]

C1_Witness ==
  \E c \in Calls :
    /\ usage0["messages"] = MsgLimit
    /\ result[c] = Thrown(ERR_MESSAGES)
    /\ args[c].audioBlob.some
    /\ args[c].chatData.type = "group"

\* C3: a call that returned without error appended exactly one record, a call
\* that threw (or is still running) appended none, and the record's type is
\* audio if an audio blob was given, else image/file if a file was given,
\* else text.
C3_OneRecordOneType ==
  /\ \A c \in Calls :
       /\ result[c] = Ok => Cardinality(AppendedBy(c)) = 1
       /\ result[c] # Ok => AppendedBy(c) = {}
  /\ \A i \in DOMAIN chatMessages :
       LET a == args[chatMessages[i].call]
           t == chatMessages[i].data.type
       IN  /\ t \in {"text", "image", "file", "audio"}
           /\ t = IF a.audioBlob.some THEN "audio"
                  ELSE IF a.file.some
                         THEN (IF a.file.type = "image/png" THEN "image" ELSE "file")
                         ELSE "text"

C3_Witness ==
  \E c \in Calls :
    /\ result[c] = Ok
    /\ args[c].audioBlob.some /\ args[c].file.some /\ Trim(args[c].content) # ""
    /\ \E i \in AppendedBy(c) : chatMessages[i].data.type = "audio"

\* C6 as claimed: a call given a file larger than 10 MiB always fails, with
\* no upload, no message and the fileStorage counter unchanged.
C6_AsClaimed ==
  \A c \in Calls :
    (Finished(c) /\ args[c].file.some /\ args[c].file.size > 10 * 1024 * 1024) =>
      /\ result[c].status = "error"
      /\ UploadedBy(c) = {}
      /\ AppendedBy(c) = {}
      /\ usage["fileStorage"] = usage0["fileStorage"]

\* C6 (amended): a call given a file larger than 10 MiB and no audio blob
\* always fails, for every storage usage, with no upload, no message and the
\* fileStorage counter unchanged; a file of exactly 10 MiB is never rejected
\* with the absolute-size error.
C6_OversizeFileRejected ==
  \A c \in Calls :
    /\ (Finished(c) /\ args[c].file.some /\ ~args[c].audioBlob.some
          /\ args[c].file.size > 10 * 1024 * 1024) =>
         /\ result[c].status = "error"
         /\ UploadedBy(c) = {}
         /\ AppendedBy(c) = {}
         /\ usage["fileStorage"] = usage0["fileStorage"]
    /\ (args[c].file.some /\ args[c].file.size <= 10 * 1024 * 1024) =>
         result[c] # Thrown(ERR_SIZE)

C6_Witness ==
  \E c \in Calls :
    /\ Finished(c)
    /\ args[c].file.size = 12 * 1024 * 1024 /\ ~args[c].audioBlob.some
    /\ usage0["fileStorage"] = 0
    /\ result[c] = Thrown(ERR_SIZE)

\* C7 as claimed: a call given a file larger than 10 MiB ends with the
\* absolute-size error, whatever the storage usage.
C7_AsClaimed ==
  \A c \in Calls :
    (Finished(c) /\ args[c].file.some /\ ~args[c].audioBlob.some
      /\ Has(c, "messages+") /\ args[c].file.size > 10 * 1024 * 1024) =>
      result[c] = Thrown(ERR_SIZE)

\* C7 (amended): a call given a file larger than 10 MiB and no audio blob,
\* whose messages check passed, ends with the absolute-size error exactly when
\* the capacity check for the file was allowed; when the capacity check was
\* denied it ends with the storage-limit error instead.
C7_SizeErrorAfterCapacity ==
  \A c \in Calls :
    (Finished(c) /\ args[c].file.some /\ ~args[c].audioBlob.some
      /\ Has(c, "messages+") /\ args[c].file.size > 10 * 1024 * 1024) =>
      /\ Has(c, "capacity+") \/ Has(c, "capacity-")
      /\ result[c] = IF Has(c, "capacity+")
                      THEN Thrown(ERR_SIZE)
                      ELSE Thrown(ERR_STORAGE)

C7_Witness ==
  \E c \in Calls :
    /\ Finished(c)
    /\ args[c].file.size = 12 * 1024 * 1024 /\ ~args[c].audioBlob.some
    /\ usage0["fileStorage"] = StorageLimit - MAX_FILE_SIZE
    /\ result[c] = Thrown(ERR_STORAGE)

\* a text send to a private chat whose other participant's profile was found
PrivateTextSend(c) ==
  /\ Finished(c)
  /\ args[c].chatData.type = "private"
  /\ ~args[c].audioBlob.some /\ ~args[c].file.some
  /\ OtherParticipant(args[c].chatData.participants, args[c].userId) # NoUser
  /\ userData[c].exists
  /\ (Has(c, "translations+") \/ Has(c, "translations-"))
\* the recipient's preferred language, en when unset
RecipientLang(c) ==
  IF userData[c].preferredLang = "" THEN "en" ELSE userData[c].preferredLang

\* C8 as claimed: such a send succeeds, and the content it persists is the
\* translation of the input to L when the translations check is allowed and
\* the input unchanged when it is denied.
C8_AsClaimed ==
  \A c \in Calls :
    (PrivateTextSend(c) /\ result[c] = Ok) =>
      \A i \in AppendedBy(c) :
        chatMessages[i].data.content =
          IF Has(c, "translations+")
            THEN StringContent(<<args[c].content, RecipientLang(c)>>)
            ELSE StringContent(<<args[c].content>>)

\* C8 (amended): such a send never ends with a quota error (it fails only if
\* the final append is rejected by the store); the content it persists is the
\* translation of the input to L when the translations check is allowed and
\* the external translation call succeeds, and the input unchanged when the
\* check is denied or the external call fails.
C8_PrivateTranslation ==
  \A c \in Calls :
    PrivateTextSend(c) =>
      /\ result[c] \in {Ok, Thrown(ERR_STORE)}
      /\ result[c] = Ok => Cardinality(AppendedBy(c)) = 1
      /\ \A i \in AppendedBy(c) :
           chatMessages[i].data.content =
             IF Has(c, "translations+") /\ Has(c, "translate+")
               THEN StringContent(<<args[c].content, RecipientLang(c)>>)
               ELSE StringContent(<<args[c].content>>)

C8_Witness ==
  \E c \in Calls :
    /\ PrivateTextSend(c)
    /\ result[c] = Ok
    /\ usage0["translations"] = TrLimit
    /\ Has(c, "translations-")
    /\ \E i \in AppendedBy(c) : chatMessages[i].data.content = StringContent(<<"hi">>)

\* a text or audio send to a group chat that persisted its message
GroupSend(c) ==
  /\ Finished(c)
  /\ result[c] = Ok
  /\ args[c].chatData.type = "group"
  /\ (args[c].audioBlob.some \/ ~args[c].file.some)
GroupLangs(c) == SeqToSet(args[c].participantLanguages)
\* the languages whose entry in the persisted mapping is the translation
TranslatedLangs(c, i) ==
  {l \in Langs : chatMessages[i].data.content.map[l] = Append(InputText(c), l)}
\* the languages whose entry in the persisted mapping is the original text
OriginalLangs(c, i) ==
  {l \in Langs : chatMessages[i].data.content.map[l] = InputText(c)}

\* C9 as claimed: with translations quota for every unit, the persisted
\* content is a mapping whose keys are exactly the languages of
\* participantLanguages, each mapped to the translation into that language.
C9_AsClaimed ==
  \A c \in Calls :
    (GroupSend(c) /\ usage0["translations"] + Len(args[c].participantLanguages) <= TrLimit) =>
      \A i \in AppendedBy(c) :
        /\ chatMessages[i].data.content.shape = "map"
        /\ Keys(chatMessages[i].data.content.map) = GroupLangs(c)
        /\ TranslatedLangs(c, i) = GroupLangs(c)

\* C9 (amended): with translations quota for every unit, the persisted
\* content is a mapping whose keys are exactly the languages of
\* participantLanguages; each is mapped to the translation into that language
\* when no external translation call failed, and otherwise to the translation
\* or, for a language whose call failed, to the original text.
C9_GroupMapping ==
  \A c \in Calls :
    (GroupSend(c) /\ usage0["translations"] + Len(args[c].participantLanguages) <= TrLimit) =>
      \A i \in AppendedBy(c) :
        /\ chatMessages[i].data.content.shape = "map"
        /\ Keys(chatMessages[i].data.content.map) = GroupLangs(c)
        /\ TranslatedLangs(c, i) \cup OriginalLangs(c, i) = GroupLangs(c)
        /\ ~Has(c, "translate-") => TranslatedLangs(c, i) = GroupLangs(c)

C9_Witness ==
  \E c \in Calls :
    /\ GroupSend(c)
    /\ args[c].audioBlob.some
    /\ args[c].participantLanguages = <<"fr", "en">>
    /\ usage0["translations"] = 0
    /\ \E i \in AppendedBy(c) : TranslatedLangs(c, i) = {"en", "fr"}

\* a group send over at least two distinct languages, started with exactly
\* one unit of translations quota left, none of whose external calls failed
LastUnitSend(c) ==
  /\ GroupSend(c)
  /\ Len(args[c].participantLanguages) >= 2
  /\ Cardinality(GroupLangs(c)) = Len(args[c].participantLanguages)
  /\ usage0["translations"] = TrLimit - 1
  /\ ~Has(c, "translate-")

\* C10 as claimed: the first language of the list keeps its translation and
\* every later one maps to the original text, whatever the interleaving.
C10_AsClaimed ==
  \A c \in Calls :
    LastUnitSend(c) =>
      \A i \in AppendedBy(c) :
        /\ TranslatedLangs(c, i) = {args[c].participantLanguages[1]}
        /\ OriginalLangs(c, i) = GroupLangs(c) \ {args[c].participantLanguages[1]}

\* C10 (amended): exactly one language of the list maps to its translation,
\* the one whose unit's check-and-increment was served first, which need not
\* be the first of the list; every other language maps to the original text.
C10_OneUnitTranslated ==
  \A c \in Calls :
    LastUnitSend(c) =>
      \A i \in AppendedBy(c) :
        /\ Cardinality(TranslatedLangs(c, i)) = 1
        /\ TranslatedLangs(c, i) \subseteq GroupLangs(c)
        /\ OriginalLangs(c, i) = GroupLangs(c) \ TranslatedLangs(c, i)

C10_Witness ==
  \E c \in Calls :
    /\ LastUnitSend(c)
    /\ args[c].participantLanguages = <<"en", "fr">>
    /\ \E i \in AppendedBy(c) :
         TranslatedLangs(c, i) = {"fr"} /\ OriginalLangs(c, i) = {"en"}

\* a text or audio send to an ai chat
AiTextSend(c) ==
  /\ Entered(c)
  /\ args[c].chatData.type = "ai"
  /\ (args[c].audioBlob.some \/ ~args[c].file.some)

\* C11: in an ai chat a text or audio send whose aiInteractions check is
\* denied (as it is when the counter is at its limit) ends with the AI-quota
\* error and appends nothing; no send to an ai chat charges the translations
\* counter or calls translation; a successful text or audio send passed the
\* aiInteractions check and persisted the untranslated input as its content.
C11_AiQuotaHardFailure ==
  \A c \in Calls :
    (Entered(c) /\ args[c].chatData.type = "ai") =>
      /\ usage["translations"] = usage0["translations"]
      /\ \A e \in {"translations+", "translations-", "translate+", "translate-"} :
           ~Has(c, e)
      /\ AiTextSend(c) =>
           /\ Has(c, "ai-") =>
                /\ pc[c] = "done"
                /\ result[c] = Thrown(ERR_AI)
                /\ AppendedBy(c) = {}
           /\ (usage0["aiInteractions"] = AiLimit) => ~Has(c, "ai+")
           /\ result[c] = Ok =>
                /\ Has(c, "ai+")
                /\ Cardinality(AppendedBy(c)) = 1
                /\ \A i \in AppendedBy(c) :
                     chatMessages[i].data.content = StringContent(InputText(c))

C11_Witness ==
  \E c \in Calls :
    /\ AiTextSend(c)
    /\ args[c].audioBlob.some
    /\ Has(c, "stt+")
    /\ Has(c, "ai-")
    /\ result[c] = Thrown(ERR_AI)

\* an audio send whose transcription call failed
FailedTranscription(c) == Entered(c) /\ args[c].audioBlob.some /\ Has(c, "stt-")

\* C12 as claimed: an audio send whose transcription call failed succeeds
\* (the store accepting its reads and its append): exactly one message is
\* persisted, of type audio with originalContent "Transcription failed", and
\* the fileStorage counter has grown by the blob's size.
C12_AsClaimed ==
  \A c \in Calls :
    (FailedTranscription(c) /\ pc[c] = "done" /\ result[c] # Thrown(ERR_STORE)) =>
      /\ result[c] = Ok
      /\ Cardinality(AppendedBy(c)) = 1
      /\ usage["fileStorage"] = usage0["fileStorage"] + args[c].audioBlob.size

\* C12 (amended): a failed transcription call never fails the send by itself:
\* the call goes on with originalContent "Transcription failed" and the
\* fileStorage counter grown by exactly the blob's size; it ends in error only
\* with the AI-quota error of an ai chat whose aiInteractions check is denied
\* or when the store rejects a read or the append, and otherwise persists
\* exactly one message, of type audio with originalContent
\* "Transcription failed".
C12_TranscriptionFallback ==
  \A c \in Calls :
    FailedTranscription(c) =>
      /\ usage["fileStorage"] = usage0["fileStorage"] + args[c].audioBlob.size
      /\ messageData[c].type = "audio"
      /\ messageData[c].originalContent = Str("Transcription failed")
      /\ pc[c] = "done" =>
           /\ result[c] \in {Ok, Thrown(ERR_AI), Thrown(ERR_STORE)}
           /\ result[c] = Thrown(ERR_AI) =>
                args[c].chatData.type = "ai" /\ Has(c, "ai-")
           /\ (args[c].chatData.type = "ai" /\ Has(c, "ai-")) =>
                result[c] = Thrown(ERR_AI) /\ AppendedBy(c) = {}
           /\ result[c] = Ok =>
                /\ Cardinality(AppendedBy(c)) = 1
                /\ \A i \in AppendedBy(c) :
                     /\ chatMessages[i].data.type = "audio"
                     /\ chatMessages[i].data.originalContent = Str("Transcription failed")

C12_Witness ==
  \E c \in Calls :
    /\ FailedTranscription(c)
    /\ args[c].chatData.type = "group"
    /\ result[c] = Ok
    /\ usage["fileStorage"] = usage0["fileStorage"] + args[c].audioBlob.size
    /\ \E i \in AppendedBy(c) :
         chatMessages[i].data.originalContent = Str("Transcription failed")

\* a call whose arguments the input guard turns away
InvalidInput(c) ==
  /\ pc[c] # "idle"
  /\ InputGuard(args[c].content, args[c].file, args[c].audioBlob, args[c].userId)

\* C13: a call with empty or whitespace-only content and neither file nor
\* audio blob, or with no userId, ends with an error raised to the caller,
\* and no quota is charged, no blob uploaded and no message appended.
C13_InvalidInputRaisesError ==
  \A c \in Calls :
    InvalidInput(c) =>
      /\ result[c].status = "error"
      /\ usage = usage0
      /\ UploadedBy(c) = {}
      /\ AppendedBy(c) = {}

\* the units of call c that translate to language l and have ended
EndedUnits(c, l) ==
  {i \in DOMAIN units[c] :
     args[c].participantLanguages[i] = l /\ units[c][i] \in UnitEnded}
\* the entry unit i of call c wrote: the translation when its call returned,
\* the original text when its check was denied or its call failed
UnitEntry(c, i) ==
  IF units[c][i] = "ok"
    THEN Translated(InputText(c), args[c].participantLanguages[i])
    ELSE InputText(c)
Min(a, b) == IF a < b THEN a ELSE b

\* C18: a failed translation call never ends the send in error (the store
\* accepting the append, the message is persisted); in a private chat the
\* content is then the original text; in a group send every entry of the
\* mapping is the one its own unit wrote (translation if its call returned,
\* original text if its call failed or its check was denied), and the units
\* whose check is allowed are as many as the quota left, whatever calls fail.
C18_TranslationFailureContained ==
  \A c \in Calls :
    /\ (Entered(c) /\ units[c] # <<>>) =>
         /\ \A l \in Langs :
              IF EndedUnits(c, l) = {}
                THEN translations[c][l] = NoText
                ELSE translations[c][l] \in {UnitEntry(c, i) : i \in EndedUnits(c, l)}
         /\ pc[c] \in {"persist", "done"} =>
              /\ Times(c, "translations+") =
                   Min(Len(units[c]), TrLimit - usage0["translations"])
              /\ messageData[c].content = MapContent(translations[c])
    /\ (Finished(c) /\ Has(c, "translate-")) =>
         /\ result[c] \in {Ok, Thrown(ERR_STORE)}
         /\ result[c] = Ok =>
              /\ Cardinality(AppendedBy(c)) = 1
              /\ \A i \in AppendedBy(c) :
                   chatMessages[i].data.content =
                     IF args[c].chatData.type = "private"
                       THEN StringContent(InputText(c))
                       ELSE MapContent(translations[c])

C18_Witness ==
  \E c \in Calls :
    /\ result[c] = Ok
    /\ args[c].participantLanguages = <<"en", "fr">>
    /\ units[c] = <<"failed", "ok">>
    /\ \E i \in AppendedBy(c) :
         /\ chatMessages[i].data.content.map["en"] = <<"hi">>
         /\ chatMessages[i].data.content.map["fr"] = <<"hi", "fr">>

\* the errors sendMessage throws itself
HardFailures == {ERR_MESSAGES, ERR_STORAGE, ERR_SIZE, ERR_AI}
Charged(c) == Has(c, "charge")

\* C19 as claimed: a call that ends with the messages, storage, size or
\* AI-quota error has uploaded no blob and charged no storage.
C19_AsClaimed ==
  \A c \in Calls :
    (Finished(c) /\ result[c].status = "error" /\ result[c].error \in HardFailures) =>
      /\ UploadedBy(c) = {}
      /\ ~Charged(c)

\* C19 (amended): a call that ends with the messages, storage or size error
\* has uploaded no blob and charged no storage; a call that ends with the
\* AI-quota error has uploaded and charged nothing when it is a text send,
\* and has uploaded the blob and charged its size when it is an audio send.
C19_HardFailureVersusUpload ==
  \A c \in Calls :
    (Finished(c) /\ result[c].status = "error" /\ result[c].error \in HardFailures) =>
      IF result[c].error = ERR_AI /\ args[c].audioBlob.some
        THEN /\ Cardinality(UploadedBy(c)) = 1
             /\ Charged(c)
             /\ usage["fileStorage"] = usage0["fileStorage"] + args[c].audioBlob.size
        ELSE /\ UploadedBy(c) = {}
             /\ ~Charged(c)
             /\ usage["fileStorage"] = usage0["fileStorage"]

C19_Witness ==
  \E c \in Calls :
    /\ result[c] = Thrown(ERR_AI)
    /\ args[c].audioBlob.some
    /\ Cardinality(UploadedBy(c)) = 1
    /\ usage["fileStorage"] = usage0["fileStorage"] + args[c].audioBlob.size

\* the place of an effect in the order of the steps
Rank(e) ==
  CASE e \in {"messages+", "messages-"} -> 1
    [] e \in {"capacity+", "capacity-"} -> 2
    [] e = "upload" -> 3
    [] e = "charge" -> 4
    [] e \in {"stt+", "stt-"} -> 5
    [] e \in {"translations+", "translations-", "translate+", "translate-",
              "ai+", "ai-"} -> 6
    [] e = "append" -> 7

\* C20: the effects of a call come in the order messages check, (capacity
\* check,) upload, (storage charge,) transcription, translation with its
\* quota checks, append; each but the translation units happens at most once;
\* a translation call follows its own quota check; the append is the last
\* effect, and when it is issued no unit of the call is still running.
C20_StepOrder ==
  \A c \in Calls :
    /\ trace[c] # <<>> => Rank(trace[c][1]) = 1
    /\ \A i, j \in DOMAIN trace[c] :
         i < j =>
           /\ Rank(trace[c][i]) <= Rank(trace[c][j])
           /\ Rank(trace[c][i]) = Rank(trace[c][j]) =>
                Rank(trace[c][i]) = Rank("translate+")
    /\ Times(c, "translate+") + Times(c, "translate-") <= Times(c, "translations+")
    /\ pc[c] = "persist" =>
         \A i \in DOMAIN units[c] : units[c][i] \in UnitEnded
    /\ Has(c, "append") =>
         /\ trace[c][Len(trace[c])] = "append"
         /\ pc[c] = "done"
         /\ result[c] = Ok
         /\ \A i \in DOMAIN units[c] : units[c][i] \in UnitEnded

C20_Witness ==
  \E c \in Calls :
    trace[c] = <<"messages+", "upload", "charge", "stt+", "translations+",
                 "translations+", "translate+", "translate+", "append">>

\* the byte size of the payload the call uploads: the audio blob if there is
\* one, else the file
PayloadSize(c) ==
  IF args[c].audioBlob.some THEN args[c].audioBlob.size ELSE args[c].file.size

\* the bytes the call has charged to storage so far
ChargedBytes(c) == IF Charged(c) THEN PayloadSize(c) ELSE 0
RECURSIVE TotalCharged(_)
TotalCharged(S) ==
  IF S = {} THEN 0
  ELSE LET c == CHOOSE x \in S : TRUE IN ChargedBytes(c) + TotalCharged(S \ {c})

\* C21: a call uploads at most one blob and charges storage at most once; a
\* charge comes only after the upload of the same call and is for exactly the
\* size of the uploaded payload; a text send uploads and charges nothing.
C21_OneUploadOneCharge ==
  \A c \in Calls :
    /\ Cardinality(UploadedBy(c)) <= 1
    /\ Times(c, "upload") = Cardinality(UploadedBy(c))
    /\ Times(c, "charge") <= 1
    /\ \A i \in UploadedBy(c) : blobStore[i].bytes = PayloadSize(c)
    /\ Charged(c) =>
         \E i, j \in DOMAIN trace[c] :
           i < j /\ trace[c][i] = "upload" /\ trace[c][j] = "charge"
    /\ usage["fileStorage"] = usage0["fileStorage"] + TotalCharged(Calls)
    /\ (Entered(c) /\ ~args[c].audioBlob.some /\ ~args[c].file.some) =>
         UploadedBy(c) = {} /\ ~Charged(c)

C21_Witness ==
  \E c \in Calls :
    /\ args[c].audioBlob.some /\ args[c].file.some
    /\ args[c].file.size = MAX_FILE_SIZE
    /\ Charged(c)
    /\ result[c] = Ok
    /\ usage["fileStorage"] = usage0["fileStorage"] + args[c].audioBlob.size

\* the chat type the call of appended message i was given
ChatTypeOf(i) == args[chatMessages[i].call].chatData.type

\* C22 as claimed: the content of a persisted message is a language-keyed
\* mapping exactly when the chat is a group chat, and a single string
\* otherwise.
C22_AsClaimed ==
  \A i \in DOMAIN chatMessages :
    /\ chatMessages[i].data.content.shape \in {"map", "string"}
    /\ chatMessages[i].data.content.shape = "map" <=> ChatTypeOf(i) = "group"

\* C22 (amended): the content of a persisted message is a language-keyed
\* mapping exactly when the chat is a group chat and the message is of type
\* text or audio; it is a single string for every message of a private or ai
\* chat and for the image and file messages of a group chat.
C22_ContentShape ==
  \A i \in DOMAIN chatMessages :
    /\ chatMessages[i].data.content.shape \in {"map", "string"}
    /\ chatMessages[i].data.type \in {"text", "image", "file", "audio"}
    /\ chatMessages[i].data.content.shape = "map" <=>
         (ChatTypeOf(i) = "group" /\ chatMessages[i].data.type \in {"text", "audio"})

C22_Witness ==
  \E i \in DOMAIN chatMessages :
    /\ ChatTypeOf(i) = "group"
    /\ chatMessages[i].data.type = "image"
    /\ chatMessages[i].data.content = StringContent(<<"a.png">>)

\* C25: a call that has charged storage passed, earlier in the same call,
\* the capacity check for those bytes, and so the fileStorage counter of a
\* user who sends one message at a time never exceeds the storage limit.
C25_ChargeAfterCapacityCheck ==
  \A c \in Calls :
    Charged(c) =>
      /\ \E i, j \in DOMAIN trace[c] :
           i < j /\ trace[c][i] = "capacity+" /\ trace[c][j] = "charge"
      /\ usage["fileStorage"] <= StorageLimit

\* the translations check-and-increment attempts call c has made
Attempts(c) == Times(c, "translations+") + Times(c, "translations-")
\* the attempts the message type and chat type of call c call for
ExpectedAttempts(c) ==
  IF messageData[c].type \notin {"text", "audio"} THEN 0
  ELSE CASE args[c].chatData.type = "ai" -> 0
         [] args[c].chatData.type = "private" ->
              IF /\ \E p \in SeqToSet(args[c].chatData.participants) : p # args[c].userId
                 /\ userData[c].exists
                THEN 1 ELSE 0
         [] args[c].chatData.type = "group" -> Len(args[c].participantLanguages)

\* C27: a call never makes more translations check-and-increment attempts
\* than its message type and chat type call for, and a call that persisted
\* its message made exactly that many: none for image and file messages and
\* in ai chats, one in a private chat whose other participant's profile was
\* found, one per element of participantLanguages in a group chat; every
\* allowed attempt stays charged, also when its translation call failed, and
\* the attempts allowed are as many as the quota left.
C27_TranslationAttempts ==
  \A c \in Calls :
    Entered(c) =>
      /\ Attempts(c) <= ExpectedAttempts(c)
      /\ result[c] = Ok => Attempts(c) = ExpectedAttempts(c)
      /\ usage["translations"] = usage0["translations"] + Times(c, "translations+")
      /\ Times(c, "translations+") =
           Min(Attempts(c), TrLimit - usage0["translations"])

C27_Witness ==
  \E c \in Calls :
    /\ result[c] = Ok
    /\ args[c].audioBlob.some
    /\ args[c].participantLanguages = <<"fr", "fr">>
    /\ Attempts(c) = 2
    /\ Has(c, "translate-")
    /\ usage["translations"] = usage0["translations"] + 2

\* no call is running
Quiescent == \A c \in Calls : pc[c] \in {"idle", "done"}

\* C28: whenever no call is running, the messages counter has grown by the
\* number of messages appended: a call that failed after its messages check
\* has not left the counter incremented.
C28_CounterCountsAcceptedMessages ==
  Quiescent => usage["messages"] = usage0["messages"] + Len(chatMessages)

\* C29: a message appended to a chat of type ai, of whatever message type,
\* was preceded in its call by exactly one allowed aiInteractions check, and
\* none is appended when the aiInteractions counter was at its limit.
C29_AiMessageCharged ==
  \A i \in DOMAIN chatMessages :
    ChatTypeOf(i) = "ai" =>
      /\ Times(chatMessages[i].call, "ai+") = 1
      /\ usage0["aiInteractions"] < AiLimit

(***************************************************************************)
(* Two sendMessage calls of the same user running concurrently.            *)
(***************************************************************************)
ConcArgs ==
  { MkArgs("hi", NoFile, NoBlob, UserA, MkChat("private", <<UserA, UserB>>), <<>>),
    MkArgs("hi", NoFile, NoBlob, UserA, MkChat("group", <<UserA, UserB>>), <<"en", "fr">>),
    MkArgs("hi", NoFile, NoBlob, UserA, MkChat("ai", <<UserA>>), <<>>),
    MkArgs("", MkFile("a.png", 1, "image/png"), NoBlob, UserA, MkChat("ai", <<UserA>>), <<>>),
    MkArgs("", NoFile, MkBlob(2), UserA, MkChat("ai", <<UserA>>), <<>>) }

NextSendConc == \E c \in Calls : Invoke(c, ConcArgs) \/ Step(c)

SpecSendConc == InitSend /\ [][NextSendConc]_vars

\* the calls whose messages check-and-increment was allowed
Passed == {c \in Calls : Has(c, "messages+")}

\* C2: under every interleaving of the calls of one user, no more calls pass
\* the messages check than units of quota were left (at most one when one
\* unit was left), so the messages appended in the period never exceed the
\* messages limit.
C2_MessagesNeverOverLimit ==
  /\ Cardinality(Passed) <= MsgLimit - usage0["messages"]
  /\ usage0["messages"] + Len(chatMessages) <= MsgLimit
  /\ usage["messages"] <= MsgLimit

C2_Witness ==
  /\ usage0["messages"] = MsgLimit - 1
  /\ \E c, d \in Calls :
       /\ result[c] = Ok
       /\ result[d] = Thrown(ERR_MESSAGES)
       /\ Len(chatMessages) = 1

(***************************************************************************)
(* Claims about invitation acceptance (SpecAccept).                        *)
(***************************************************************************)
\* C4: in every reachable state a chat of type private has at most 2
\* participants.
C4_PrivateAtMostTwo ==
  \A k \in DOMAIN chats :
    chats[k].type = "private" => Len(chats[k].participants) <= 2

\* the chat visitor v's link names is a private chat that has 2 participants
FullPrivateTarget(v) ==
  /\ visitor[v].token \in DOMAIN chats
  /\ chats[visitor[v].token].type = "private"
  /\ Len(chats[visitor[v].token].participants) >= 2

\* C5: when an authenticated user's acceptance reads a private chat that
\* already has 2 participants, it ends in the error state at once and the
\* chats are left as they were: no write is issued.
C5_FullPrivateRejected ==
  [][\A v \in Visitors :
       (visitor[v].pc = "getDoc" /\ visitor'[v] # visitor[v] /\ FullPrivateTarget(v)) =>
         /\ visitor'[v].state = "error"
         /\ visitor'[v].pc = "idle"
         /\ chats' = chats]_vars

C5_Witness ==
  \E v \in Visitors :
    /\ FullPrivateTarget(v)
    /\ v \notin SeqToSet(chats[visitor[v].token].participants)
    /\ visitor[v].status = "authenticated"
    /\ visitor[v].state = "error"
    /\ visitor[v].error = "This private chat already has two members"

\* the user of visitor v is already a participant of the chat v's link names
AlreadyMember(v) ==
  /\ visitor[v].token \in DOMAIN chats
  /\ visitor[v].userId \in SeqToSet(chats[visitor[v].token].participants)
NoDuplicates(arr) == Cardinality(SeqToSet(arr)) = Len(arr)

\* C14: every step of an acceptance run by a user who is already in the
\* participants of the chat (the read and its checks, or the union write)
\* leaves the chats collection exactly as it was, and no participants array
\* ever holds an entry twice.
C14_AcceptanceIdempotent ==
  [][\A v \in Visitors :
       (visitor[v].pc \in {"getDoc", "updateDoc"} /\ visitor'[v] # visitor[v]
          /\ AlreadyMember(v)) =>
         /\ chats' = chats
         /\ \A k \in DOMAIN chats' : NoDuplicates(chats'[k].participants)]_vars

C14_Witness ==
  \E v \in Visitors :
    /\ visitor[v].writes = 2
    /\ visitor[v].state = "redirecting"
    /\ chats[visitor[v].token].type = "group"
    /\ chats[visitor[v].token].participants = <<UserA, v>>

\* the transitions of the acceptance state the state machine declares
DeclaredTransitions ==
  { <<"loading", "accepting">>, <<"accepting", "redirecting">>,
    <<"loading", "error">>, <<"accepting", "error">> }

\* C15: the acceptance state changes only along loading->accepting,
\* accepting->redirecting, loading->error and accepting->error, so that
\* redirecting and error, once entered, are never left.
C15_OnlyDeclaredTransitions ==
  [][\A v \in Visitors :
       visitor'[v].state # visitor[v].state =>
         <<visitor[v].state, visitor'[v].state>> \in DeclaredTransitions]_vars

\* the link of visitor v names no chat, or a chat of type ai
InvalidTarget(v) ==
  \/ visitor[v].token \notin DOMAIN chats
  \/ chats[visitor[v].token].type = "ai"

\* C16: an acceptance that reads a missing chat or a chat of type ai ends in
\* the error state with no write to any chat; a visitor whose session turns
\* out unauthenticated goes to error with no read or write issued.
C16_InvalidTargetRejected ==
  [][\A v \in Visitors :
       /\ (visitor[v].pc = "getDoc" /\ visitor'[v] # visitor[v] /\ InvalidTarget(v)) =>
            /\ visitor'[v].state = "error"
            /\ visitor'[v].pc = "idle"
            /\ visitor'[v].writes = visitor[v].writes
            /\ chats' = chats
       /\ (visitor[v].status # "unauthenticated"
             /\ visitor'[v].status = "unauthenticated") =>
            /\ visitor'[v].state = "error"
            /\ visitor'[v].pc = "idle"
            /\ visitor'[v].writes = visitor[v].writes
            /\ chats' = chats]_vars

C16_Witness ==
  \E v, w \in Visitors :
    /\ v # w
    /\ visitor[v].error = "AI chats do not support invitations"
    /\ chats[visitor[v].token].type = "ai"
    /\ visitor[v].state = "error" /\ visitor[v].writes = 0
    /\ visitor[w].error = "Invalid invitation"
    /\ visitor[w].token \notin DOMAIN chats
    /\ visitor[w].state = "error" /\ visitor[w].writes = 0

(***************************************************************************)
(* Claims about chat creation (SpecCreate).                                *)
(***************************************************************************)
\* the step ends a run of handleCreateChat or handleInvite that did not fail
CreationSucceeds ==
  /\ handler.pc # "idle"
  /\ handler'.pc = "idle"
  /\ <<chats', invitations'>> # <<chats, invitations>>
\* the id of the chat that run created
CreatedChatId == IF handler.pc = "create_addDoc" THEN Len(chats') ELSE handler.chatId
\* the invitation records written for the link of chat k
RecordsFor(inv, k) ==
  {i \in DOMAIN inv : inv[i].chatId = LastSegment(InvitationLink(k))}
\* every chat is written with its creator as the only participant
WrittenWithCreatorAlone ==
  Len(chats') > Len(chats) =>
    /\ Len(chats') = Len(chats) + 1
    /\ ui.sessionUser # NoUser
    /\ chats'[Len(chats')].participants = <<ui.sessionUser>>
    /\ chats'[Len(chats')].createdBy = ui.sessionUser
\* the outcome of the direct add: creator and recipient, no invitation record
DirectAddOutcome(k) ==
  /\ chats'[k].type = "private"
  /\ chats'[k].participants = <<ui.sessionUser, handler.sel[1]>>
  /\ handler.sel[1] # ui.sessionUser
  /\ RecordsFor(invitations', k) = {}
  /\ ui'.chatLink = ChatLink(k)
\* the outcome of handleInvite: a private chat of the creator alone and one
\* record, for the address typed in
InviteOutcome(k) ==
  /\ chats'[k].type = "private"
  /\ chats'[k].participants = <<ui.sessionUser>>
  /\ Cardinality(RecordsFor(invitations', k)) = 1
  /\ \A i \in RecordsFor(invitations', k) : invitations'[i].email = handler.email
\* one invitation record per selected user
OneRecordEach(k) ==
  /\ Cardinality(RecordsFor(invitations', k)) = Len(handler.sel)
  /\ \A j \in DOMAIN handler.sel :
       Cardinality({i \in RecordsFor(invitations', k) :
                      invitations'[i].email = Email(handler.sel[j])}) = 1

\* C17 as claimed: the chat is written with the creator alone; a private chat
\* with exactly one selected recipient gets that recipient added and no
\* invitation record; every other path adds nobody, writes one invitation
\* record per selected recipient and shows the invitation link of the chat.
C17_AsClaimed ==
  [][/\ WrittenWithCreatorAlone
     /\ CreationSucceeds =>
          IF handler.pc = "invite_send"
            THEN InviteOutcome(CreatedChatId)
            ELSE IF ui.chatType = "private" /\ Len(handler.sel) = 1
              THEN DirectAddOutcome(CreatedChatId)
              ELSE /\ chats'[CreatedChatId].participants = <<ui.sessionUser>>
                   /\ OneRecordEach(CreatedChatId)
                   /\ ui'.chatLink = InvitationLink(CreatedChatId)]_vars

\* C17 (amended): the chat is written with the creator alone; a private chat
\* with exactly one selected recipient and "create without users" off gets
\* that recipient added, no invitation record and the chat link; every other
\* run of handleCreateChat adds nobody, shows the invitation link of the chat
\* and writes one invitation record per selected user when "create without
\* users" is off and none when it is on; handleInvite writes a private chat of
\* the creator alone and the one record for the address typed in.
C17_CreationOutcome ==
  [][/\ WrittenWithCreatorAlone
     /\ CreationSucceeds =>
          IF handler.pc = "invite_send"
            THEN InviteOutcome(CreatedChatId)
            ELSE IF ui.chatType = "private" /\ Len(handler.sel) = 1 /\ ~handler.cwu
              THEN DirectAddOutcome(CreatedChatId)
              ELSE /\ chats'[CreatedChatId].type = ui.chatType
                   /\ chats'[CreatedChatId].participants = <<ui.sessionUser>>
                   /\ ui'.chatLink = InvitationLink(CreatedChatId)
                   /\ IF handler.cwu
                        THEN RecordsFor(invitations', CreatedChatId) = {}
                        ELSE OneRecordEach(CreatedChatId)]_vars

C17_Witness ==
  \E k \in DOMAIN chats :
    /\ chats[k].type = "private"
    /\ chats[k].participants = <<UserA, UserB>>
    /\ ui.chatLink = ChatLink(k)
    /\ RecordsFor(invitations, k) = {}
    /\ handler = IdleHandler
    /\ \E j \in DOMAIN chats :
         /\ chats[j].type = "group"
         /\ chats[j].participants = <<UserA>>
         /\ Cardinality(RecordsFor(invitations, j)) = 2

(***************************************************************************)
(* Claims about the participants of a chat (SpecAccept: the chats creation *)
(* has written, a creation still waiting for its direct add, and the       *)
(* acceptances of two visitors).                                           *)
(***************************************************************************)
\* C23: in every reachable state every chat of type ai has exactly one
\* participant, its creator.
C23_AiChatHasCreatorOnly ==
  \A k \in DOMAIN chats :
    chats[k].type = "ai" =>
      /\ Len(chats[k].participants) = 1
      /\ chats[k].participants = <<chats[k].createdBy>>

C23_Witness ==
  \E v \in Visitors :
    /\ visitor[v].token \in DOMAIN chats
    /\ chats[visitor[v].token].type = "ai"
    /\ visitor[v].status = "authenticated"
    /\ visitor[v].state = "error"
    /\ visitor[v].error = "AI chats do not support invitations"
    /\ chats[visitor[v].token].participants = <<UserA>>

\* C24: no step removes a chat or a participant of a chat, the creator is
\* always among the participants, and a step that changes a chat adds exactly
\* one user id to its participants and changes no other field.
C24_ParticipantsOnlyGrow ==
  [][/\ DOMAIN chats \subseteq DOMAIN chats'
     /\ \A k \in DOMAIN chats :
          /\ SeqToSet(chats[k].participants) \subseteq SeqToSet(chats'[k].participants)
          /\ chats[k].createdBy \in SeqToSet(chats[k].participants)
          /\ chats'[k].createdBy \in SeqToSet(chats'[k].participants)
          /\ chats'[k] # chats[k] =>
               \E u \in Visitors :
                 /\ u \notin SeqToSet(chats[k].participants)
                 /\ chats'[k] = [chats[k] EXCEPT !.participants = Append(@, u)]]_vars

C24_Witness ==
  \E k \in DOMAIN chats :
    /\ chats[k].type = "group"
    /\ chats[k].participants = <<UserA, UserC, UserB>>
    /\ \A v \in Visitors : visitor[v].state = "redirecting" /\ visitor[v].token = k

(***************************************************************************)
(* Claims about two concurrent sendMessage calls (SpecSendConc).           *)
(***************************************************************************)
\* call c is a file send of at most 10 MiB
SmallFileSend(c) ==
  /\ Entered(c)
  /\ args[c].file.some /\ ~args[c].audioBlob.some
  /\ args[c].file.size <= MAX_FILE_SIZE

\* C26: under every interleaving of two file sends of one user, each of at
\* most 10 MiB, the fileStorage counter never exceeds the storage limit.
C26_StorageNeverOverLimit ==
  (\A c \in Calls : SmallFileSend(c)) => usage["fileStorage"] <= StorageLimit

(***************************************************************************)
(* Progress of invitation acceptance: every store call that was issued     *)
(* returns or fails (weak fairness of the steps that follow an await); the *)
(* changes of the session status are the environment's and are not forced. *)
(***************************************************************************)
SpecAcceptLive ==
  /\ InitAccept
  /\ [][NextAccept]_vars
  /\ \A v \in Visitors : WF_vars(AcceptGetDoc(v)) /\ WF_vars(AcceptUpdateDoc(v))
  /\ WF_vars(CreateUpdateDoc)

\* C30: once the session status of a visitor is authenticated or
\* unauthenticated, the acceptance state of that visitor eventually is
\* redirecting or error.
C30_EventuallyTerminal ==
  \A v \in Visitors :
    [](visitor[v].status # "loading" =>
         <>(visitor[v].state \in {"redirecting", "error"}))

(***************************************************************************)
(* Claims about the records CreateNewChat writes (SpecCreate).             *)
(***************************************************************************)
\* C31: every invitation record has a chatId equal to the id of a chat of
\* the chats collection (the token of the shareable link), so that a lookup
\* of chats by the record's chatId finds the chat.
C31_RecordNamesChat ==
  \A i \in DOMAIN invitations :
    \E k \in DOMAIN chats : invitations[i].chatId = <<k>>

\* C33: every chat record CreateNewChat writes has the type the component
\* was opened with, on the on-demand invitation path too.
C33_TypeIsChatType ==
  [][Len(chats') > Len(chats) => chats'[Len(chats')].type = ui.chatType]_vars

(***************************************************************************)
(* Claims about MessageInput (SpecInput, SpecInputLive).                   *)
(***************************************************************************)
\* the calls of onSendMessage that carry an audio blob
AudioDispatches == {i \in DOMAIN dispatched : dispatched[i].audio}

\* C32: once handleRecordingComplete has ended, every completed recording
\* was handed to onSendMessage, whether or not the transcription succeeded.
C32_RecordingDispatched ==
  input.audioPc = "idle" => Cardinality(AudioDispatches) = input.recorded

\* the sends started by handleSendMessage that have not settled
PendingSends ==
  {i \in DOMAIN dispatched :
     dispatched[i].by = "handleSendMessage" /\ dispatched[i].outcome = "pending"}

\* this step settles a send of handleSendMessage with outcome o
Settles(o) == \E i \in PendingSends : dispatched'[i].outcome = o

\* this step starts a send of handleSendMessage
StartsSend ==
  /\ Len(dispatched') = Len(dispatched) + 1
  /\ dispatched'[Len(dispatched')].by = "handleSendMessage"

C34_OneInFlight ==
  /\ Cardinality(PendingSends) <= 1
  /\ input.isSending <=> PendingSends # {}

C34_Step ==
  /\ StartsSend => ~input.isSending /\ input'.isSending
  /\ Settles("failed") =>
       /\ input'.message = input.message
       /\ input'.file = input.file
       /\ ~input'.isSending
  /\ Settles("ok") =>
       /\ input'.message = ""
       /\ ~input'.file
       /\ ~input'.isSending
  /\ input.isSending /\ input.file /\ ~input'.file => Settles("ok")
  /\ input.isSending /\ input.message # "" /\ input'.message = "" => Settles("ok")

\* C34: at most one send of handleSendMessage is in flight, and a call made
\* while isSending is true starts none; after every send, successful or
\* failed, isSending returns to false; the typed text and the selected file
\* are cleared by a successful send and left as they are by a failed one.
C34_SendDiscipline ==
  /\ []C34_OneInFlight
  /\ [][C34_Step]_vars
  /\ (input.isSending ~> ~input.isSending)

\* a send of "hi" failed and left the text in place; a call of
\* handleSendMessage made in the meantime was ignored
C34_Witness ==
  /\ Len(dispatched) = 1
  /\ dispatched[1] = [Dispatch("handleSendMessage", "hi", FALSE, FALSE)
                        EXCEPT !.outcome = "failed"]
  /\ input.message = "hi"
  /\ ~input.isSending
  /\ input.ignored

(***************************************************************************)
(* Claims about useUserStore (SpecStore).                                  *)
(***************************************************************************)
\* every fetchUserInfo call has ended, and there was one
AllFetched == requests # <<>> /\ \A i \in DOMAIN requests : requests[i].pc = "done"

\* C35: after all fetchUserInfo calls have completed, isLoading is false and
\* currentUser is what the most recently requested uid resolved to (its
\* profile if it exists, null otherwise), under every interleaving.
C35_LastRequestWins ==
  AllFetched =>
    /\ ~store.isLoading
    /\ store.currentUser = requests[Len(requests)].result
====
